---- MODULE Spec2Model ----
(***************************************************************************)
(* GeoWeld: the tree-density model, the point sampler, the proportional    *)
(* distribution, the boundary clipping, the output pipeline, the tree      *)
(* placement, the configuration validation and the row classification of   *)
(* src/src/processor.py (class ResortProcessor), the Overpass fetch of     *)
(* src/src/overpass.py, and the loops over resorts of                      *)
(* src/scripts/batch_process.py and src/scripts/process_resort.py.         *)
(*                                                                         *)
(* Ten specifications share this module, one per component:                *)
(*   SpecTreeCount   calculate_tree_count on a configuration and an area   *)
(*   SpecSampler     generate_random_points_in_polygon, step by step       *)
(*   SpecDistribute  _distribute_trees_across_polygons on a list of parts  *)
(*   SpecClip        clip_to_boundary on a frame, and on its own result    *)
(*   SpecPipeline    create_output_geojson, stage by stage                 *)
(*   SpecFetch       fetch_osm_features and the retry loop it calls        *)
(*   SpecPlacement   seeding and tree placement, resort after resort       *)
(*   SpecValidate    _validate_config_consistency on a tree_config         *)
(*   SpecBatch       the loops over the requested resorts and the exit     *)
(*   SpecClassify    the forest, tree and rock masks on an OSM frame       *)
(* Each one leaves the variables of the other components at their idle     *)
(* values.                                                                 *)
(*                                                                         *)
(* Areas are whole square meters and quotients are exact: the rounding of  *)
(* the code's double arithmetic is not modelled.                           *)
(* Geometries are sets of cells of a lattice, so intersections are exact.  *)
(***************************************************************************)
EXTENDS Integers, Sequences, FiniteSets, TLC

VARIABLES
    tc_pc,                \* tree count: "start" | "done"
    tree_config,          \* resort_config['tree_config']
    area_sq_meters,       \* the argument of calculate_tree_count
    tc_tier,              \* the branch of the density chain that was taken
    tree_count,           \* the value calculate_tree_count returned
    sp_pc,                \* sampler: position in generate_random_points_in_polygon
    polygon,              \* the polygon argument
    num_points,           \* the num_points argument
    points,               \* the local list `points` of the running phase
    attempts,             \* _rejection_sampling_adaptive: attempts
    consecutive_failures, \* _rejection_sampling_adaptive: consecutive_failures
    max_attempts,         \* _rejection_sampling_adaptive: max_attempts
    tested,               \* number of membership tests the rejection loop made
    grid_exception,       \* the exception _grid_based_sampling ended with
    warnings,             \* number of shortfall warnings logged
    sp_result,            \* the list returned to the caller
    sp_phase,             \* which phase's list was returned
    tree_features,        \* the caller's list (_process_forest_geometry)
    ds_pc,                \* distribution: "start" | "done"
    polygon_areas,        \* areas of the parts, in list order
    total_tree_count,     \* the total to distribute
    tree_counts,          \* the list _distribute_trees_across_polygons returned
    cl_pc,                \* clipping: position in clip_to_boundary
    gdf,                  \* the frame passed to clip_to_boundary, row by row
    feature_boundary,     \* self.feature_boundary
    clipped,              \* the rows clip_to_boundary returned
    cl_path,              \* the path that produced them
    reclipped,            \* the rows of clip_to_boundary applied to `clipped`
    pl_pc,                \* pipeline: position in create_output_geojson
    boundaries_file,      \* the boundaries file on disk: missing, or its ZoneTypes
    osm_file,             \* the OSM features file on disk before the run
    random_seeded,        \* random.seed(random_seed) has run
    pl_feature_boundary,  \* self.feature_boundary as the pipeline sees it
    boundaries_gdf,       \* the ZoneType column after normalisation
    features_gdf,         \* the OSM features frame load_data returned
    fetch_calls,          \* calls of fetch_osm_features
    ski_warnings,         \* missing ski_area_boundary warnings printed
    pl_error,             \* the exception create_output_geojson ended with
    boundary_features,    \* the four lists of lines 951-954
    forest_features,
    generated_tree_points,
    osm_tree_points,
    rock_features,
    output_geojson,       \* the collection create_output_geojson returned
    fx_pc,                \* fetch: position in fetch_osm_features / fetch_features
    attempt,              \* the loop variable of fetch_features
    responses,            \* what each request met, in order
    fx_log,               \* the requests posted and the sleeps taken, in order
    json_error_caught,    \* a response.json() failure is a RequestException
    fetch_outcome,        \* how fetch_features ended
    cache_before,         \* the cached OSM file before the call
    cache_file,           \* the cached OSM file now
    failure,              \* what failed inside the try block of line 290
    fetch_osm_result,     \* how fetch_osm_features ended
    tp_pc,                \* tree placement: position in the loop over the resorts
    rng,                  \* the stream of module `random`: last seed, draws since
    resorts_to_process,   \* the resorts this process handles, in order
    resort_index,         \* the resort being processed
    clipped_forest_gdf,   \* process_forest_features: the clipped forest rows
    forest_index,         \* generate_tree_points: the next row of the loop
    tree_points,          \* generate_tree_points: tree_features so far
    forest_log,           \* what each call of _process_forest_geometry did
    osm_nodes_kept,       \* process_osm_tree_nodes: the points it returned
    resort_results,       \* per finished resort: its tree points and its log
    vc_pc,                \* configuration validation: "start" | "done"
    vc_tree_config,       \* the tree_config _validate_config_consistency reads
    validation_error,     \* the message of the ValidationError raised, or "none"
    vc_warnings,          \* warnings _validate_config_consistency logged
    results_valid,         \* results['valid'] of validate_input_files
    bp_pc,                \* batch run: "running" | "exited"
    bp_script,            \* which script and mode runs the resorts
    bp_behaviour,         \* per requested resort: what its pipeline and write do
    bp_pending,           \* the resorts not yet processed
    results,              \* the result entries, in the order they were appended
    files_written,        \* the resorts whose output file was written in full
    exit_status,           \* the status the process exited with
    cf_pc,                \* classification: which masks have been computed
    osm_rows,             \* the OSM frame: the tags and geometry type of each row
    forest_rows,          \* process_forest_features: the rows of forest_gdf
    tree_rows,            \* process_osm_tree_nodes: the rows of tree_gdf
    rock_rows              \* process_rock_features: the rows of rock_gdf

tcVars == <<tc_pc, tree_config, area_sq_meters, tc_tier, tree_count>>
spVars == <<sp_pc, polygon, num_points, points, attempts, consecutive_failures,
            max_attempts, tested, grid_exception, warnings, sp_result, sp_phase,
            tree_features>>
dsVars == <<ds_pc, polygon_areas, total_tree_count, tree_counts>>
clVars == <<cl_pc, gdf, feature_boundary, clipped, cl_path, reclipped>>
plVars == <<pl_pc, boundaries_file, osm_file, random_seeded, pl_feature_boundary,
            boundaries_gdf, features_gdf, fetch_calls, ski_warnings, pl_error,
            boundary_features, forest_features, generated_tree_points,
            osm_tree_points, rock_features, output_geojson>>
fxVars == <<fx_pc, attempt, responses, fx_log, json_error_caught, fetch_outcome,
            cache_before, cache_file, failure, fetch_osm_result>>
tpVars == <<tp_pc, rng, resorts_to_process, resort_index, clipped_forest_gdf,
            forest_index, tree_points, forest_log, osm_nodes_kept, resort_results>>
vcVars == <<vc_pc, vc_tree_config, validation_error, vc_warnings,
             results_valid>>
bpVars == <<bp_pc, bp_script, bp_behaviour, bp_pending, results,
             files_written, exit_status>>
cfVars == <<cf_pc, osm_rows, forest_rows, tree_rows, rock_rows>>
vars == <<tcVars, spVars, dsVars, clVars, plVars, fxVars, tpVars, vcVars,
          bpVars, cfVars>>

Min(a, b) == IF a <= b THEN a ELSE b
Max(a, b) == IF a >= b THEN a ELSE b

(***************************************************************************)
(* constants.py                                                            *)
(***************************************************************************)
SMALL_AREA_THRESHOLD == 1
MEDIUM_AREA_THRESHOLD == 20000
LARGE_AREA_THRESHOLD == 100000
EXTRA_LARGE_AREA_THRESHOLD == 200000
DEFAULT_TREES_PER_SMALL_HECTARE == 4
DEFAULT_TREES_PER_MEDIUM_HECTARE == 10
DEFAULT_TREES_PER_LARGE_HECTARE == 20
DEFAULT_TREES_PER_EXTRA_LARGE_HECTARE == 40
MAX_TREE_ATTEMPTS == 100
DEFAULT_MAX_TREES_PER_POLYGON == 1000
MIN_TREES_PER_POLYGON == 1
HECTARE_TO_SQ_METERS == 10000

(***************************************************************************)
(* Tree density model                                                      *)
(***************************************************************************)

\* _get_resort_config: the tree configuration of a resort that sets nothing.
DefaultTreeConfig ==
    [ min_area_for_trees            |-> SMALL_AREA_THRESHOLD,
      small_area_threshold          |-> SMALL_AREA_THRESHOLD * 5,
      medium_area_threshold         |-> MEDIUM_AREA_THRESHOLD * 4,
      large_area_threshold          |-> LARGE_AREA_THRESHOLD,
      extra_large_area_threshold    |-> EXTRA_LARGE_AREA_THRESHOLD,
      trees_per_small_hectare       |-> DEFAULT_TREES_PER_SMALL_HECTARE,
      trees_per_medium_hectare      |-> DEFAULT_TREES_PER_MEDIUM_HECTARE,
      trees_per_large_hectare       |-> DEFAULT_TREES_PER_LARGE_HECTARE,
      trees_per_extra_large_hectare |-> DEFAULT_TREES_PER_EXTRA_LARGE_HECTARE,
      max_trees_per_polygon         |-> DEFAULT_MAX_TREES_PER_POLYGON,
      min_trees_per_polygon         |-> MIN_TREES_PER_POLYGON ]

\* The configuration of the worked example: thresholds 3000 / 20000 / 100000 /
\* 200000 and 2 / 4 / 15 / 40 trees per hectare; a resort sets these keys in
\* its tree_config and _get_resort_config keeps them (setdefault).
FixtureTreeConfig(maxTrees) ==
    [ DefaultTreeConfig EXCEPT
        !.small_area_threshold          = 3000,
        !.medium_area_threshold         = 20000,
        !.large_area_threshold          = 100000,
        !.extra_large_area_threshold    = 200000,
        !.trees_per_small_hectare       = 2,
        !.trees_per_medium_hectare      = 4,
        !.trees_per_large_hectare       = 15,
        !.trees_per_extra_large_hectare = 40,
        !.max_trees_per_polygon         = maxTrees ]

\* Bounds of the configurations and areas that are enumerated.
AreaStep == 2500
MaxAreaSteps == 100

\* Values a resort's tree_config may set (any key may be overridden).
MinAreaChoices == {SMALL_AREA_THRESHOLD, 1000}
SmallChoices == {SMALL_AREA_THRESHOLD * 5, 3000, 30000}
MediumChoices == {MEDIUM_AREA_THRESHOLD, MEDIUM_AREA_THRESHOLD * 4}
LargeChoices == {LARGE_AREA_THRESHOLD, 10000}
ExtraLargeChoices == {EXTRA_LARGE_AREA_THRESHOLD, 50000}
DensityChoices == { <<4, 10, 20, 40>>, <<2, 4, 15, 40>>, <<40, 20, 10, 4>> }
ClampChoices == { <<1, 1000>>, <<0, 100>>, <<5, 5>>, <<10, 3>> }

TreeConfigs ==
    { [ min_area_for_trees            |-> ma,
        small_area_threshold          |-> s,
        medium_area_threshold         |-> m,
        large_area_threshold          |-> l,
        extra_large_area_threshold    |-> x,
        trees_per_small_hectare       |-> d[1],
        trees_per_medium_hectare      |-> d[2],
        trees_per_large_hectare       |-> d[3],
        trees_per_extra_large_hectare |-> d[4],
        min_trees_per_polygon         |-> c[1],
        max_trees_per_polygon         |-> c[2] ] :
        ma \in MinAreaChoices, s \in SmallChoices, m \in MediumChoices,
        l \in LargeChoices, x \in ExtraLargeChoices,
        d \in DensityChoices, c \in ClampChoices }
    \cup {DefaultTreeConfig}
    \cup {FixtureTreeConfig(mx) : mx \in {100, 200, DEFAULT_MAX_TREES_PER_POLYGON}}

\* Areas: a regular sweep, and the neighbours of every threshold in use.
ThresholdValues ==
    MinAreaChoices \cup SmallChoices \cup MediumChoices \cup LargeChoices
        \cup ExtraLargeChoices
Areas ==
    { k * AreaStep : k \in 0..MaxAreaSteps }
    \cup { t + e : t \in ThresholdValues, e \in {-1, 0, 1} }

\* calculate_tree_count, lines 463-470: the branch of the if/elif chain.
\* extra_large_area_threshold is not read.
DensityTierStrict(cfg, area) ==
    IF area < cfg.small_area_threshold THEN "small"
    ELSE IF area < cfg.medium_area_threshold THEN "medium"
    ELSE IF area < cfg.large_area_threshold THEN "large"
    ELSE "extra_large"
DensityTier(cfg, area) ==
    IF area <= cfg.small_area_threshold THEN "small"
    ELSE IF area <= cfg.medium_area_threshold THEN "medium"
    ELSE IF area <= cfg.large_area_threshold THEN "large"
    ELSE "extra_large"

TierRate(cfg, tier) ==
    CASE tier = "small"       -> cfg.trees_per_small_hectare
      [] tier = "medium"      -> cfg.trees_per_medium_hectare
      [] tier = "large"       -> cfg.trees_per_large_hectare
      [] tier = "extra_large" -> cfg.trees_per_extra_large_hectare

\* int(hectares * trees_per_hectare) with hectares = area / HECTARE_TO_SQ_METERS;
\* int() truncates, and truncation is \div for the non-negative values here.
RawTreeCountHalfHectare(area, rate) ==
    (area * rate) \div (HECTARE_TO_SQ_METERS \div 2)
RawTreeCountInverted(area, rate) ==
    IF area = 0 THEN 0 ELSE (rate * HECTARE_TO_SQ_METERS) \div area
RawTreeCount(area, rate) == (area * rate) \div HECTARE_TO_SQ_METERS

\* max(min_trees, .) and then min(max_trees, .), in the order of lines 475-476.
ClampTreeCountNoMinimum(cfg, n) == Min(cfg.max_trees_per_polygon, n)
ClampTreeCount(cfg, n) ==
    Min(cfg.max_trees_per_polygon, Max(cfg.min_trees_per_polygon, n))

calculate_tree_count(cfg, area) ==
    IF area < cfg.min_area_for_trees THEN 0
    ELSE ClampTreeCount(cfg, RawTreeCount(area, TierRate(cfg, DensityTier(cfg, area))))

TreeCountIdle ==
    /\ tc_pc = "idle"
    /\ tree_config = DefaultTreeConfig
    /\ area_sq_meters = 0
    /\ tc_tier = "none"
    /\ tree_count = 0

TreeCountInit ==
    /\ tc_pc = "start"
    /\ tree_config \in TreeConfigs
    /\ area_sq_meters \in Areas
    /\ tc_tier = "none"
    /\ tree_count = 0

\* One call of calculate_tree_count(area_sq_meters).
CalculateTreeCount ==
    /\ tc_pc = "start"
    /\ tc_pc' = "done"
    /\ tc_tier' = IF area_sq_meters < tree_config.min_area_for_trees
                  THEN "none"
                  ELSE DensityTier(tree_config, area_sq_meters)
    /\ tree_count' = calculate_tree_count(tree_config, area_sq_meters)
    /\ UNCHANGED <<tree_config, area_sq_meters>>
    /\ UNCHANGED <<spVars, dsVars, clVars, plVars, fxVars,
                   tpVars, vcVars, bpVars, cfVars>>

(***************************************************************************)
(* Point sampler                                                           *)
(***************************************************************************)

\* Bounds of the sampler's inputs. The bounding box of a polygon is a lattice
\* of NumCells cells of unit area; a polygon is the set of cells inside it, and
\* a random point of the bounding box is the cell it falls in.
NumCells == 2
MaxPoints == 2
MaxTested == 101

\* The literals of lines 605, 587 and 523.
EARLY_STOP_PER_POINT == 50
ATTEMPT_CAP_PER_POINT == 500
GRID_ACCEPT_PERCENT == 80

Cells == 1..NumCells

\* status: "valid"   is_valid is True and contains answers;
\*         "invalid" is_valid is False (contains is not evaluated, line 598);
\*         "raises"  the membership test of line 598 raises.
\* bbox_area = 0 is a polygon whose bounding box has no width or no height.
Polygons ==
    { p \in [ inside : SUBSET Cells,
              status : {"valid", "invalid", "raises"},
              bbox_area : {0, NumCells} ] :
        p.bbox_area = 0 => p.inside = {} }

NumPointsChoices == (-1)..MaxPoints

\* polygon.area, in cells.
PolygonArea(p) == Cardinality(p.inside)

\* polygon.contains(point)
Contains(p, c) == c \in p.inside

\* Line 598 when it does not raise: polygon.is_valid and polygon.contains(point).
MembershipTestNoContains(p, c) == p.status = "valid"
MembershipTest(p, c) == p.status = "valid" /\ Contains(p, c)

\* Lines 580-587. efficiency = area / bbox_area (0.1 for an empty box);
\* int(num_points * MAX_TREE_ATTEMPTS / max(efficiency, 0.1)), at most
\* 500 per point. efficiency >= 0.1 is 10 * area >= bbox_area.
MaxAttempts(p, n) ==
    LET area == PolygonArea(p)
        uncapped ==
            IF p.bbox_area > 0 /\ 10 * area >= p.bbox_area
            THEN (n * MAX_TREE_ATTEMPTS * p.bbox_area) \div area
            ELSE n * MAX_TREE_ATTEMPTS * 10
    IN  Min(uncapped, n * ATTEMPT_CAP_PER_POINT)

\* Lines 550-564 on the lattice, had the jitter draws of lines 556-557
\* evaluated: the walk visits the cells in order, keeps those polygon.contains
\* accepts (line 560 does not ask is_valid) and stops at 2 * num_points.
GridWalkCandidates(p, n) ==
    LET inOrder == SelectSeq([c \in Cells |-> c], LAMBDA c : Contains(p, c))
    IN  SubSeq(inOrder, 1, Min(Len(inOrder), 2 * n))

\* _grid_based_sampling as Python runs it. `import random` at line 568 makes
\* `random` a local name of the whole function, so the first draw at line 556
\* raises UnboundLocalError before any candidate is tested; with a zero area
\* line 543 divides by zero first. The loop is always entered for
\* num_points > 0 (min_x <= max_x and 0 < 2 * num_points).
grid_based_sampling(p, n) ==
    IF PolygonArea(p) = 0
    THEN [exception |-> "ZeroDivisionError", points |-> <<>>]
    ELSE [exception |-> "UnboundLocalError", points |-> <<>>]

\* Line 523: len(points) >= num_points * 0.8
GridAccepted(found, n) == 100 * found >= GRID_ACCEPT_PERCENT * n

\* Line 605: consecutive_failures > num_points * 50
EarlyStop(cf, n) == cf > n * EARLY_STOP_PER_POINT

\* Line 531: len(points) < num_points
ShortfallOnlyWhenEmpty(pts, n) == Len(pts) = 0
Shortfall(pts, n) == Len(pts) < n

SamplerIdle ==
    /\ sp_pc = "idle"
    /\ polygon = [inside |-> {}, status |-> "valid", bbox_area |-> 0]
    /\ num_points = 0
    /\ points = <<>>
    /\ attempts = 0
    /\ consecutive_failures = 0
    /\ max_attempts = 0
    /\ tested = 0
    /\ grid_exception = "none"
    /\ warnings = 0
    /\ sp_result = <<>>
    /\ sp_phase = "none"
    /\ tree_features = <<>>

SamplerInit ==
    /\ sp_pc = "call"
    /\ polygon \in Polygons
    /\ num_points \in NumPointsChoices
    /\ points = <<>>
    /\ attempts = 0
    /\ consecutive_failures = 0
    /\ max_attempts = 0
    /\ tested = 0
    /\ grid_exception = "none"
    /\ warnings = 0
    /\ sp_result = <<>>
    /\ sp_phase = "none"
    /\ tree_features = <<>>

\* generate_random_points_in_polygon, lines 517-518.
ReturnEmpty ==
    /\ sp_pc = "call"
    /\ num_points <= 0
    /\ sp_result' = <<>>
    /\ sp_pc' = "done"
    /\ UNCHANGED <<polygon, num_points, points, attempts, consecutive_failures,
                   max_attempts, tested, grid_exception, warnings, sp_phase,
                   tree_features>>
    /\ UNCHANGED <<tcVars, dsVars, clVars, plVars, fxVars,
                   tpVars, vcVars, bpVars, cfVars>>

\* Lines 521-526: the grid phase inside try / except Exception: pass.
GridPhase ==
    /\ sp_pc = "call"
    /\ num_points > 0
    /\ LET r == grid_based_sampling(polygon, num_points)
       IN  /\ grid_exception' = r.exception
           /\ IF r.exception = "none" /\ GridAccepted(Len(r.points), num_points)
              THEN /\ sp_result' = SubSeq(r.points, 1, Min(Len(r.points), num_points))
                   /\ sp_phase' = "grid"
                   /\ sp_pc' = "done"
              ELSE /\ sp_pc' = "rejection"
                   /\ UNCHANGED <<sp_result, sp_phase>>
    /\ UNCHANGED <<polygon, num_points, points, attempts, consecutive_failures,
                   max_attempts, tested, warnings, tree_features>>
    /\ UNCHANGED <<tcVars, dsVars, clVars, plVars, fxVars,
                   tpVars, vcVars, bpVars, cfVars>>

\* _rejection_sampling_adaptive, lines 575-590.
RejectionStart ==
    /\ sp_pc = "rejection"
    /\ points' = <<>>
    /\ max_attempts' = MaxAttempts(polygon, num_points)
    /\ attempts' = 0
    /\ consecutive_failures' = 0
    /\ sp_pc' = "loop"
    /\ UNCHANGED <<polygon, num_points, tested, grid_exception, warnings,
                   sp_result, sp_phase, tree_features>>
    /\ UNCHANGED <<tcVars, dsVars, clVars, plVars, fxVars,
                   tpVars, vcVars, bpVars, cfVars>>

\* Line 592.
LoopCondition == Len(points) < num_points /\ attempts < max_attempts

\* One iteration whose candidate passes line 598: lines 599-600, 605, 612.
RejectionAccept(c) ==
    /\ sp_pc = "loop"
    /\ LoopCondition
    /\ polygon.status # "raises"
    /\ MembershipTest(polygon, c)
    /\ points' = Append(points, c)
    /\ consecutive_failures' = 0
    /\ tested' = tested + 1
    /\ IF EarlyStop(0, num_points)
       THEN sp_pc' = "check" /\ UNCHANGED attempts
       ELSE attempts' = attempts + 1 /\ UNCHANGED sp_pc
    /\ UNCHANGED <<polygon, num_points, max_attempts, grid_exception, warnings,
                   sp_result, sp_phase, tree_features>>
    /\ UNCHANGED <<tcVars, dsVars, clVars, plVars, fxVars,
                   tpVars, vcVars, bpVars, cfVars>>

\* One iteration whose candidate fails line 598: lines 602, 605-606, 612.
RejectionReject(c) ==
    /\ sp_pc = "loop"
    /\ LoopCondition
    /\ polygon.status # "raises"
    /\ ~MembershipTest(polygon, c)
    /\ consecutive_failures' = consecutive_failures + 1
    /\ tested' = tested + 1
    /\ IF EarlyStop(consecutive_failures + 1, num_points)
       THEN sp_pc' = "check" /\ UNCHANGED attempts
       ELSE attempts' = attempts + 1 /\ UNCHANGED sp_pc
    /\ UNCHANGED <<polygon, num_points, points, max_attempts, grid_exception,
                   warnings, sp_result, sp_phase, tree_features>>
    /\ UNCHANGED <<tcVars, dsVars, clVars, plVars, fxVars,
                   tpVars, vcVars, bpVars, cfVars>>

\* One iteration whose membership test raises: lines 608-610. `continue` skips
\* the early-termination test of line 605 and the increment of line 612.
\* consecutive_failures grows without limit; MaxTested cuts the run.
RejectionRaise(c) ==
    /\ sp_pc = "loop"
    /\ LoopCondition
    /\ polygon.status = "raises"
    /\ tested < MaxTested
    /\ consecutive_failures' = consecutive_failures + 1
    /\ tested' = tested + 1
    /\ UNCHANGED <<sp_pc, polygon, num_points, points, attempts, max_attempts,
                   grid_exception, warnings, sp_result, sp_phase, tree_features>>
    /\ UNCHANGED <<tcVars, dsVars, clVars, plVars, fxVars,
                   tpVars, vcVars, bpVars, cfVars>>

\* Line 592 evaluates to False.
LoopExit ==
    /\ sp_pc = "loop"
    /\ ~LoopCondition
    /\ sp_pc' = "check"
    /\ UNCHANGED <<polygon, num_points, points, attempts, consecutive_failures,
                   max_attempts, tested, grid_exception, warnings, sp_result,
                   sp_phase, tree_features>>
    /\ UNCHANGED <<tcVars, dsVars, clVars, plVars, fxVars,
                   tpVars, vcVars, bpVars, cfVars>>

\* generate_random_points_in_polygon, lines 531-534.
WarnAndReturn ==
    /\ sp_pc = "check"
    /\ warnings' = IF Shortfall(points, num_points) THEN warnings + 1 ELSE warnings
    /\ sp_result' = points
    /\ sp_phase' = "rejection"
    /\ sp_pc' = "done"
    /\ UNCHANGED <<polygon, num_points, points, attempts, consecutive_failures,
                   max_attempts, tested, grid_exception, tree_features>>
    /\ UNCHANGED <<tcVars, dsVars, clVars, plVars, fxVars,
                   tpVars, vcVars, bpVars, cfVars>>

\* The caller, _process_forest_geometry lines 766-769: one feature per point.
CallerAppends ==
    /\ sp_pc = "done"
    /\ tree_features' = tree_features \o sp_result
    /\ sp_pc' = "appended"
    /\ UNCHANGED <<polygon, num_points, points, attempts, consecutive_failures,
                   max_attempts, tested, grid_exception, warnings, sp_result,
                   sp_phase>>
    /\ UNCHANGED <<tcVars, dsVars, clVars, plVars, fxVars,
                   tpVars, vcVars, bpVars, cfVars>>

(***************************************************************************)
(* Proportional distribution                                               *)
(***************************************************************************)

\* Bounds of the distribution's inputs.
MaxParts == 3
MaxPartArea == 4
MaxTotal == 7

\* The lists of part areas (_calculate_area_in_sq_meters of each part; 0 for an
\* empty or unrepairable part) and the totals.
PartAreaLists == UNION { [1..k -> 0..MaxPartArea] : k \in 0..MaxParts }
TotalChoices == (-1)..MaxTotal

RECURSIVE SeqSum(_)
SeqSum(q) == IF q = <<>> THEN 0 ELSE q[1] + SeqSum(Tail(q))

\* int(x) for x = num / den with den > 0: truncation towards zero.
IntTrunc(num, den) ==
    IF num >= 0 THEN num \div den ELSE -((-num) \div den)

\* Lines 713-717: the count of part i, given what the parts before it got.
PartTreeCountNoRemainder(areas, total, total_area, i, distributed) ==
    IntTrunc(total * areas[i], total_area)
PartTreeCount(areas, total, total_area, i, distributed) ==
    IF i = Len(areas)
    THEN total - distributed
    ELSE IntTrunc(total * areas[i], total_area)

\* Lines 712-720: the loop from part i on.
RECURSIVE DistributeFrom(_, _, _, _, _)
DistributeFrom(areas, total, total_area, i, distributed) ==
    IF i > Len(areas)
    THEN <<>>
    ELSE LET tc == PartTreeCount(areas, total, total_area, i, distributed)
         IN  <<Max(0, tc)>>
                 \o DistributeFrom(areas, total, total_area, i + 1, distributed + tc)

distribute_trees_across_polygons(areas, total) ==
    LET total_area == SeqSum(areas)
    IN  IF total_area = 0
        THEN [i \in 1..Len(areas) |-> 0]
        ELSE DistributeFrom(areas, total, total_area, 1, 0)

DistributeIdle ==
    /\ ds_pc = "idle"
    /\ polygon_areas = <<>>
    /\ total_tree_count = 0
    /\ tree_counts = <<>>

DistributeInit ==
    /\ ds_pc = "start"
    /\ polygon_areas \in PartAreaLists
    /\ total_tree_count \in TotalChoices
    /\ tree_counts = <<>>

\* One call of _distribute_trees_across_polygons.
DistributeTrees ==
    /\ ds_pc = "start"
    /\ tree_counts' = distribute_trees_across_polygons(polygon_areas, total_tree_count)
    /\ ds_pc' = "done"
    /\ UNCHANGED <<polygon_areas, total_tree_count>>
    /\ UNCHANGED <<tcVars, spVars, clVars, plVars, fxVars,
                   tpVars, vcVars, bpVars, cfVars>>

(***************************************************************************)
(* Boundary clipping                                                       *)
(***************************************************************************)

\* Largest number of rows of the frame passed to clip_to_boundary.
MaxFeatures == 2

\* A geometry on the lattice of Cells: the cells it covers and its geom_type.
\* Only polygons have area. flaw: "ok"      is_valid is True;
\*                                "invalid" is_valid is False, make_valid repairs it;
\*                                "broken"  is_valid is False, make_valid raises.
GeomTypes == {"Polygon", "LineString", "Point"}

Geometries ==
    { g \in [ cells : (SUBSET Cells) \ {{}},
              geom_type : GeomTypes,
              flaw : {"ok", "invalid", "broken"} ] :
        /\ g.geom_type # "Polygon" => g.flaw = "ok"
        /\ g.geom_type = "Point" => Cardinality(g.cells) = 1 }

Frames == UNION { [1..n -> Geometries] : n \in 0..MaxFeatures }

\* self.feature_boundary: None until load_data sets it to the union of the
\* feature_boundary zones.
NoBoundary == [loaded |-> FALSE, cells |-> {}]

FeatureBoundaries ==
    {NoBoundary} \cup { [loaded |-> TRUE, cells |-> c] : c \in (SUBSET Cells) \ {{}} }

IsValid(g) == g.flaw = "ok"
MakeValidRaises(g) == g.flaw = "broken"
make_valid(g) == [g EXCEPT !.flaw = "ok"]
IsEmpty(g) == g.cells = {}
Area(g) == IF g.geom_type = "Polygon" THEN Cardinality(g.cells) ELSE 0

\* total_bounds / the bounding boxes of the spatial index: the hull of the cells.
Lo(cells) == CHOOSE c \in cells : \A d \in cells : c <= d
Hi(cells) == CHOOSE c \in cells : \A d \in cells : c >= d
BoundsWithin(a, b) ==
    a # {} /\ b # {} /\ Lo(b) <= Lo(a) /\ Hi(a) <= Hi(b)
BoundsIntersect(a, b) ==
    a # {} /\ b # {} /\ Lo(a) <= Hi(b) /\ Lo(b) <= Hi(a)

\* geom.intersection(boundary) and the geometry overlay(how='intersection')
\* gives a pair of rows; SymmetricDifference is how='symmetric_difference'.
SymmetricDifference(g, b) ==
    [ cells |-> (g.cells \ b.cells) \cup (b.cells \ g.cells),
      geom_type |-> g.geom_type, flaw |-> "ok" ]
Intersection(g, b) ==
    [ cells |-> g.cells \cap b.cells, geom_type |-> g.geom_type, flaw |-> "ok" ]

\* Lines 414 and 441: not is_empty and area > 0.
KeepClippedNonEmpty(g) == ~IsEmpty(g)
KeepClipped(g) == ~IsEmpty(g) /\ Area(g) > 0

\* A returned row: its geometry and the position in the input frame of the
\* row it was computed from.
Row(i, g) == [source |-> i, geometry |-> g]
GeometriesOf(rows) == [i \in 1..Len(rows) |-> rows[i].geometry]

\* Lines 389-392: the invalid geometries of the frame are repaired in place.
RepairInvalid(frame) ==
    [i \in 1..Len(frame) |->
        IF IsValid(frame[i]) THEN frame[i] ELSE make_valid(frame[i])]
RepairRaises(frame) ==
    \E i \in 1..Len(frame) : ~IsValid(frame[i]) /\ MakeValidRaises(frame[i])

\* Lines 395-397: the rows whose bounding box meets the boundary's.
PossibleMatchesWithin(frame, b) ==
    { i \in 1..Len(frame) : BoundsWithin(frame[i].cells, b.cells) }
PossibleMatches(frame, b) ==
    { i \in 1..Len(frame) : BoundsIntersect(frame[i].cells, b.cells) }

\* Lines 406-410: overlay(how='intersection') has one row for each match
\* that meets the boundary.
RECURSIVE Overlay(_, _, _, _)
Overlay(frame, b, matches, i) ==
    IF i > Len(frame) THEN <<>>
    ELSE (IF i \in matches /\ ~IsEmpty(Intersection(frame[i], b))
          THEN <<Row(i, Intersection(frame[i], b))>>
          ELSE <<>>) \o Overlay(frame, b, matches, i + 1)

\* Lines 413-415.
ValidMask(rows) == SelectSeq(rows, LAMBDA r : KeepClipped(r.geometry))

\* Lines 387-417 when nothing raises.
clip_indexed(frame, b) ==
    LET repaired == RepairInvalid(frame)
        matches == PossibleMatches(repaired, b)
    IN  IF matches = {} THEN <<>>
        ELSE ValidMask(Overlay(repaired, b, matches, 1))

\* Lines 430-446: one iteration of the fallback loop, the rows it appends.
FallbackRow(frame, b, i) ==
    LET geom == frame[i]
    IN  IF ~IsValid(geom) /\ MakeValidRaises(geom) THEN <<>>
        ELSE LET fixed == IF IsValid(geom) THEN geom ELSE make_valid(geom)
                 clipped_geom == Intersection(fixed, b)
             IN  IF KeepClipped(clipped_geom)
                 THEN <<Row(i, clipped_geom)>>
                 ELSE <<>>

RECURSIVE FallbackLoop(_, _, _)
FallbackLoop(frame, b, i) ==
    IF i > Len(frame) THEN <<>>
    ELSE FallbackRow(frame, b, i) \o FallbackLoop(frame, b, i + 1)

\* _clip_to_boundary_fallback; the variant gives up at the first failure.
clip_fallback_abort(frame, b) ==
    IF RepairRaises(frame) THEN <<>> ELSE FallbackLoop(frame, b, 1)
clip_to_boundary_fallback(frame, b) == FallbackLoop(frame, b, 1)

ClipIdle ==
    /\ cl_pc = "idle"
    /\ gdf = <<>>
    /\ feature_boundary = NoBoundary
    /\ clipped = <<>>
    /\ cl_path = "none"
    /\ reclipped = <<>>

ClipInit ==
    /\ cl_pc = "call"
    /\ gdf \in Frames
    /\ feature_boundary \in FeatureBoundaries
    /\ clipped = <<>>
    /\ cl_path = "none"
    /\ reclipped = <<>>

\* Lines 379-380.
ClipNoBoundary ==
    /\ cl_pc = "call"
    /\ ~feature_boundary.loaded
    /\ cl_pc' = "raised"
    /\ UNCHANGED <<gdf, feature_boundary, clipped, cl_path, reclipped>>
    /\ UNCHANGED <<tcVars, spVars, dsVars, plVars, fxVars,
                   tpVars, vcVars, bpVars, cfVars>>

\* Lines 382-383.
ClipEmpty ==
    /\ cl_pc = "call"
    /\ feature_boundary.loaded
    /\ gdf = <<>>
    /\ clipped' = <<>>
    /\ cl_path' = "empty"
    /\ cl_pc' = "done"
    /\ UNCHANGED <<gdf, feature_boundary, reclipped>>
    /\ UNCHANGED <<tcVars, spVars, dsVars, plVars, fxVars,
                   tpVars, vcVars, bpVars, cfVars>>

\* Lines 385-417 running to the return of line 417 (or 401).
ClipIndexed ==
    /\ cl_pc = "call"
    /\ feature_boundary.loaded
    /\ gdf # <<>>
    /\ ~RepairRaises(gdf)
    /\ gdf' = RepairInvalid(gdf)
    /\ clipped' = clip_indexed(gdf, feature_boundary)
    /\ cl_path' = "indexed"
    /\ cl_pc' = "done"
    /\ UNCHANGED <<feature_boundary, reclipped>>
    /\ UNCHANGED <<tcVars, spVars, dsVars, plVars, fxVars,
                   tpVars, vcVars, bpVars, cfVars>>

\* Line 392 raises: a geometry cannot be repaired; the frame is as it was.
ClipRepairRaises ==
    /\ cl_pc = "call"
    /\ feature_boundary.loaded
    /\ gdf # <<>>
    /\ RepairRaises(gdf)
    /\ cl_pc' = "fallback"
    /\ UNCHANGED <<gdf, feature_boundary, clipped, cl_path, reclipped>>
    /\ UNCHANGED <<tcVars, spVars, dsVars, plVars, fxVars,
                   tpVars, vcVars, bpVars, cfVars>>

\* A later step of the try block raises (the spatial index or the overlay):
\* the repairs of line 392 have been written to the frame.
ClipIndexRaises ==
    /\ cl_pc = "call"
    /\ feature_boundary.loaded
    /\ gdf # <<>>
    /\ ~RepairRaises(gdf)
    /\ gdf' = RepairInvalid(gdf)
    /\ cl_pc' = "fallback"
    /\ UNCHANGED <<feature_boundary, clipped, cl_path, reclipped>>
    /\ UNCHANGED <<tcVars, spVars, dsVars, plVars, fxVars,
                   tpVars, vcVars, bpVars, cfVars>>

\* Lines 419-421 and 423-451.
ClipFallback ==
    /\ cl_pc = "fallback"
    /\ clipped' = clip_to_boundary_fallback(gdf, feature_boundary)
    /\ cl_path' = "fallback"
    /\ cl_pc' = "done"
    /\ UNCHANGED <<gdf, feature_boundary, reclipped>>
    /\ UNCHANGED <<tcVars, spVars, dsVars, plVars, fxVars,
                   tpVars, vcVars, bpVars, cfVars>>

\* clip_to_boundary called on the frame it returned: the three ways it can
\* run (the returned geometries are all valid, so no repair raises).
ReclipEmpty ==
    /\ cl_pc = "done"
    /\ clipped = <<>>
    /\ reclipped' = <<>>
    /\ cl_pc' = "redone"
    /\ UNCHANGED <<gdf, feature_boundary, clipped, cl_path>>
    /\ UNCHANGED <<tcVars, spVars, dsVars, plVars, fxVars,
                   tpVars, vcVars, bpVars, cfVars>>

ReclipIndexed ==
    /\ cl_pc = "done"
    /\ clipped # <<>>
    /\ reclipped' = clip_indexed(GeometriesOf(clipped), feature_boundary)
    /\ cl_pc' = "redone"
    /\ UNCHANGED <<gdf, feature_boundary, clipped, cl_path>>
    /\ UNCHANGED <<tcVars, spVars, dsVars, plVars, fxVars,
                   tpVars, vcVars, bpVars, cfVars>>

ReclipFallback ==
    /\ cl_pc = "done"
    /\ clipped # <<>>
    /\ reclipped' = clip_to_boundary_fallback(GeometriesOf(clipped), feature_boundary)
    /\ cl_pc' = "redone"
    /\ UNCHANGED <<gdf, feature_boundary, clipped, cl_path>>
    /\ UNCHANGED <<tcVars, spVars, dsVars, plVars, fxVars,
                   tpVars, vcVars, bpVars, cfVars>>

(***************************************************************************)
(* Pipeline: load_data and create_output_geojson                           *)
(***************************************************************************)

\* Bounds of the pipeline's inputs: rows of the boundaries file, rows of the
\* OSM features frame, tree points generated for one forest feature.
MaxZones == 2
MaxOsmFeatures == 2
MaxTreesPerForest == 1

\* A ZoneType is a string, kept here as its sequence of characters.
FEATURE_BOUNDARY ==
    <<"f","e","a","t","u","r","e","_","b","o","u","n","d","a","r","y">>
SKI_AREA_BOUNDARY ==
    <<"s","k","i","_","a","r","e","a","_","b","o","u","n","d","a","r","y">>

\* The ZoneType values a boundaries file may carry.
RawZoneTypes ==
    { FEATURE_BOUNDARY,
      <<"F","e","a","t","u","r","e"," ","B","o","u","n","d","a","r","y">>,
      <<"F","e","a","t","u","r","e","-","B","o","u","n","d","a","r","y">>,
      <<"S","k","i"," ","A","r","e","a"," ","B","o","u","n","d","a","r","y">>,
      <<"s","l","o","w","_","z","o","n","e">> }

ZoneLists == UNION { [1..n -> RawZoneTypes] : n \in 0..MaxZones }

\* str.lower() and str.replace(' ', '_') of line 317, character by character.
UpperToLower == [ch \in {"F", "B", "S", "A"} |->
    CASE ch = "F" -> "f" [] ch = "B" -> "b" [] ch = "S" -> "s" [] ch = "A" -> "a"]
Lower(ch) == IF ch \in DOMAIN UpperToLower THEN UpperToLower[ch] ELSE ch
ReplaceSpace(ch) == IF ch = " " THEN "_" ELSE ch
NormalizeZoneType(z) == [i \in 1..Len(z) |-> ReplaceSpace(Lower(z[i]))]
NormalizeZoneTypes(zones) ==
    [i \in 1..Len(zones) |-> NormalizeZoneType(zones[i])]

\* Lines 320-324 and 333-334, on the normalised column.
HasZone(zones, zone_type) == \E i \in 1..Len(zones) : zones[i] = zone_type

\* A row of the OSM features frame: the processing it is selected for, whether
\* its part inside the feature boundary is kept (clip_to_boundary for forests
\* and rocks, contains for tree nodes), and for a kept forest the number of
\* points generate_tree_points returns for it.
OsmFeatures ==
    { f \in [ class : {"forest", "rock", "tree", "other"},
              inside : BOOLEAN,
              trees : 0..MaxTreesPerForest ] :
        /\ f.trees > 0 => (f.class = "forest" /\ f.inside)
        /\ f.class = "other" => ~f.inside }

OsmFrames == UNION { [1..n -> OsmFeatures] : n \in 0..MaxOsmFeatures }

OsmFileStates == {"missing", "empty", "unreadable", "present"}

\* Lines 350-363.
ShouldFetch(file) == file \in {"missing", "empty", "unreadable"}

\* Lines 334-371: the call of line 371 lies behind the raise of line 343.
FetchCallsUnguarded(has_feature_boundary, file) ==
    IF ShouldFetch(file) THEN 1 ELSE 0
FetchCalls(has_feature_boundary, file) ==
    IF has_feature_boundary /\ ShouldFetch(file) THEN 1 ELSE 0

\* An output feature: its layer, for a tree point its source, the input row
\* it was made from, and its id (0: the properties carry no id).
Feature(layer, source, from) ==
    [layer |-> layer, source |-> source, from |-> from, id |-> 0]

RECURSIVE Copies(_, _)
Copies(x, n) == IF n <= 0 THEN <<>> ELSE <<x>> \o Copies(x, n - 1)

RECURSIVE RowsToFeatures(_, _, _, _, _)
RowsToFeatures(frame, class, layer, source, i) ==
    IF i > Len(frame) THEN <<>>
    ELSE (IF frame[i].class = class /\ frame[i].inside
          THEN <<Feature(layer, source, i)>>
          ELSE <<>>) \o RowsToFeatures(frame, class, layer, source, i + 1)

\* process_boundary_features: one feature for each row.
process_boundary_features(zones) ==
    [i \in 1..Len(zones) |-> Feature("boundary", "none", i)]

\* process_forest_features, first element: one feature for each clipped row.
ForestFeatures(frame) == RowsToFeatures(frame, "forest", "forest", "none", 1)

\* generate_tree_points: the points of each clipped forest row, row by row.
RECURSIVE generate_tree_points(_, _)
generate_tree_points(frame, i) ==
    IF i > Len(frame) THEN <<>>
    ELSE (IF frame[i].class = "forest" /\ frame[i].inside
          THEN Copies(Feature("tree", "generated", i), frame[i].trees)
          ELSE <<>>) \o generate_tree_points(frame, i + 1)

\* process_osm_tree_nodes: the tree nodes the feature boundary contains.
process_osm_tree_nodes(frame) == RowsToFeatures(frame, "tree", "tree", "osm", 1)

\* process_rock_features: one feature for each clipped row.
process_rock_features(frame) == RowsToFeatures(frame, "rock", "rock", "none", 1)

\* Lines 957-961: enumerate(all_tree_points, start=1).
AssignIdsFromZero(trees) ==
    [i \in 1..Len(trees) |-> [trees[i] EXCEPT !.id = i - 1]]
AssignIds(trees) ==
    [i \in 1..Len(trees) |-> [trees[i] EXCEPT !.id = i]]

\* Line 963.
AllFeaturesWithoutRocks(boundary, forest, trees, rocks) ==
    boundary \o forest \o trees
AllFeatures(boundary, forest, trees, rocks) ==
    boundary \o forest \o trees \o rocks

\* Lines 957-985.
OutputGeojson(boundary, forest, osm_trees, generated, rocks) ==
    LET all_tree_points == AssignIds(osm_trees \o generated)
        all_features == AllFeatures(boundary, forest, all_tree_points, rocks)
    IN  [ features |-> all_features,
          metadata |->
            [ total_features |-> Len(all_features),
              boundary_features |-> Len(boundary),
              forest_features |-> Len(forest),
              tree_points_total |-> Len(all_tree_points),
              tree_points_osm |-> Len(osm_trees),
              tree_points_generated |-> Len(generated),
              tree_id_range |->
                  IF all_tree_points # <<>>
                  THEN [min |-> 1, max |-> Len(all_tree_points)]
                  ELSE [min |-> 0, max |-> 0],
              rock_features |-> Len(rocks) ] ]

NoOutput == [features |-> <<>>, metadata |-> [total_features |-> -1]]
NoFile == [exists |-> FALSE, zones |-> <<>>]

PipelineIdle ==
    /\ pl_pc = "idle"
    /\ boundaries_file = NoFile
    /\ osm_file = "missing"
    /\ random_seeded = FALSE
    /\ pl_feature_boundary = "None"
    /\ boundaries_gdf = <<>>
    /\ features_gdf = <<>>
    /\ fetch_calls = 0
    /\ ski_warnings = 0
    /\ pl_error = "none"
    /\ boundary_features = <<>>
    /\ forest_features = <<>>
    /\ generated_tree_points = <<>>
    /\ osm_tree_points = <<>>
    /\ rock_features = <<>>
    /\ output_geojson = NoOutput

PipelineInit ==
    /\ pl_pc = "start"
    /\ boundaries_file \in
          {NoFile} \cup { [exists |-> TRUE, zones |-> z] : z \in ZoneLists }
    /\ osm_file \in OsmFileStates
    /\ random_seeded = FALSE
    /\ pl_feature_boundary = "None"
    /\ boundaries_gdf = <<>>
    /\ features_gdf = <<>>
    /\ fetch_calls = 0
    /\ ski_warnings = 0
    /\ pl_error = "none"
    /\ boundary_features = <<>>
    /\ forest_features = <<>>
    /\ generated_tree_points = <<>>
    /\ osm_tree_points = <<>>
    /\ rock_features = <<>>
    /\ output_geojson = NoOutput

plLists == <<boundary_features, forest_features, generated_tree_points,
             osm_tree_points, rock_features, output_geojson>>

\* Line 946.
Seed ==
    /\ pl_pc = "start"
    /\ random_seeded' = TRUE
    /\ pl_pc' = "seeded"
    /\ UNCHANGED <<boundaries_file, osm_file, pl_feature_boundary, boundaries_gdf,
                   features_gdf, fetch_calls, ski_warnings, pl_error, plLists>>
    /\ UNCHANGED <<tcVars, spVars, dsVars, clVars, fxVars,
                   tpVars, vcVars, bpVars, cfVars>>

\* Lines 311-312.
LoadBoundariesMissing ==
    /\ pl_pc = "seeded"
    /\ ~boundaries_file.exists
    /\ pl_error' = "FileNotFoundError"
    /\ pl_pc' = "failed"
    /\ UNCHANGED <<boundaries_file, osm_file, random_seeded, pl_feature_boundary,
                   boundaries_gdf, features_gdf, fetch_calls, ski_warnings, plLists>>
    /\ UNCHANGED <<tcVars, spVars, dsVars, clVars, fxVars,
                   tpVars, vcVars, bpVars, cfVars>>

\* The ski_area_boundary warning of lines 324-330.
SkiWarnings(zones) == IF HasZone(zones, SKI_AREA_BOUNDARY) THEN 0 ELSE 1

\* Lines 314-343: no row is a feature_boundary.
LoadNoFeatureBoundary ==
    /\ pl_pc = "seeded"
    /\ boundaries_file.exists
    /\ LET zones == NormalizeZoneTypes(boundaries_file.zones)
       IN  /\ ~HasZone(zones, FEATURE_BOUNDARY)
           /\ boundaries_gdf' = zones
           /\ ski_warnings' = ski_warnings + SkiWarnings(zones)
           /\ fetch_calls' = fetch_calls + FetchCalls(FALSE, osm_file)
    /\ pl_error' = "ValueError"
    /\ pl_pc' = "failed"
    /\ UNCHANGED <<boundaries_file, osm_file, random_seeded, pl_feature_boundary,
                   features_gdf, plLists>>
    /\ UNCHANGED <<tcVars, spVars, dsVars, clVars, fxVars,
                   tpVars, vcVars, bpVars, cfVars>>

\* Lines 314-375 with a feature_boundary row. fetched: what
\* fetch_osm_features did when it was called ("new" it saved a fresh
\* collection, "cached" it fell back to the file that was there, "raised");
\* frame: the rows gpd.read_file finds in a file with rows.
LoadData ==
    /\ pl_pc = "seeded"
    /\ boundaries_file.exists
    /\ HasZone(NormalizeZoneTypes(boundaries_file.zones), FEATURE_BOUNDARY)
    /\ \E fetched \in {"new", "cached", "raised"}, frame \in OsmFrames :
        LET zones == NormalizeZoneTypes(boundaries_file.zones)
            after == CASE ~ShouldFetch(osm_file) -> "present"
                       [] fetched = "new" -> IF frame = <<>> THEN "empty" ELSE "present"
                       [] fetched = "cached" -> osm_file
                       [] OTHER -> "raised"
        IN  /\ ShouldFetch(osm_file) \/ (fetched = "new" /\ frame # <<>>)
            /\ fetched = "cached" => osm_file # "missing"
            /\ (after \in {"empty", "raised", "unreadable"}) => frame = <<>>
            /\ boundaries_gdf' = zones
            /\ ski_warnings' = ski_warnings + SkiWarnings(zones)
            /\ pl_feature_boundary' = "set"
            /\ fetch_calls' = fetch_calls + FetchCalls(TRUE, osm_file)
            /\ features_gdf' = frame
            /\ osm_file' = IF after = "raised" THEN osm_file ELSE after
            /\ pl_error' = CASE after = "raised" -> "fetch"
                             [] after = "unreadable" -> "read"
                             [] OTHER -> "none"
            /\ pl_pc' = IF after \in {"raised", "unreadable"}
                        THEN "failed" ELSE "loaded"
    /\ UNCHANGED <<boundaries_file, random_seeded, plLists>>
    /\ UNCHANGED <<tcVars, spVars, dsVars, clVars, fxVars,
                   tpVars, vcVars, bpVars, cfVars>>

\* Line 951.
ProcessBoundaryFeatures ==
    /\ pl_pc = "loaded"
    /\ boundary_features' = process_boundary_features(boundaries_gdf)
    /\ pl_pc' = "boundaries"
    /\ UNCHANGED <<boundaries_file, osm_file, random_seeded, pl_feature_boundary,
                   boundaries_gdf, features_gdf, fetch_calls, ski_warnings, pl_error,
                   forest_features, generated_tree_points, osm_tree_points,
                   rock_features, output_geojson>>
    /\ UNCHANGED <<tcVars, spVars, dsVars, clVars, fxVars,
                   tpVars, vcVars, bpVars, cfVars>>

\* Line 952.
ProcessForestFeatures ==
    /\ pl_pc = "boundaries"
    /\ forest_features' = ForestFeatures(features_gdf)
    /\ generated_tree_points' = generate_tree_points(features_gdf, 1)
    /\ pl_pc' = "forests"
    /\ UNCHANGED <<boundaries_file, osm_file, random_seeded, pl_feature_boundary,
                   boundaries_gdf, features_gdf, fetch_calls, ski_warnings, pl_error,
                   boundary_features, osm_tree_points, rock_features, output_geojson>>
    /\ UNCHANGED <<tcVars, spVars, dsVars, clVars, fxVars,
                   tpVars, vcVars, bpVars, cfVars>>

\* Line 953.
ProcessOsmTreeNodes ==
    /\ pl_pc = "forests"
    /\ osm_tree_points' = process_osm_tree_nodes(features_gdf)
    /\ pl_pc' = "trees"
    /\ UNCHANGED <<boundaries_file, osm_file, random_seeded, pl_feature_boundary,
                   boundaries_gdf, features_gdf, fetch_calls, ski_warnings, pl_error,
                   boundary_features, forest_features, generated_tree_points,
                   rock_features, output_geojson>>
    /\ UNCHANGED <<tcVars, spVars, dsVars, clVars, fxVars,
                   tpVars, vcVars, bpVars, cfVars>>

\* Line 954; the variant runs it before load_data, out of order.
ProcessRockFeaturesBeforeLoad ==
    /\ pl_pc = "seeded"
    /\ rock_features' = process_rock_features(features_gdf)
    /\ pl_pc' = "rocks"
    /\ UNCHANGED <<boundaries_file, osm_file, random_seeded, pl_feature_boundary,
                   boundaries_gdf, features_gdf, fetch_calls, ski_warnings, pl_error,
                   boundary_features, forest_features, generated_tree_points,
                   osm_tree_points, output_geojson>>
    /\ UNCHANGED <<tcVars, spVars, dsVars, clVars, fxVars, tpVars, vcVars, bpVars,
                   cfVars>>
ProcessRockFeatures ==
    /\ pl_pc = "trees"
    /\ rock_features' = process_rock_features(features_gdf)
    /\ pl_pc' = "rocks"
    /\ UNCHANGED <<boundaries_file, osm_file, random_seeded, pl_feature_boundary,
                   boundaries_gdf, features_gdf, fetch_calls, ski_warnings, pl_error,
                   boundary_features, forest_features, generated_tree_points,
                   osm_tree_points, output_geojson>>
    /\ UNCHANGED <<tcVars, spVars, dsVars, clVars, fxVars,
                   tpVars, vcVars, bpVars, cfVars>>

\* Lines 957-987. The ids are written into the dicts the two tree lists
\* hold, so the lists show them too.
Merge ==
    /\ pl_pc = "rocks"
    /\ output_geojson' = OutputGeojson(boundary_features, forest_features,
                                       osm_tree_points, generated_tree_points,
                                       rock_features)
    /\ osm_tree_points' =
          SubSeq(AssignIds(osm_tree_points \o generated_tree_points),
                 1, Len(osm_tree_points))
    /\ generated_tree_points' =
          SubSeq(AssignIds(osm_tree_points \o generated_tree_points),
                 Len(osm_tree_points) + 1,
                 Len(osm_tree_points) + Len(generated_tree_points))
    /\ pl_pc' = "merged"
    /\ UNCHANGED <<boundaries_file, osm_file, random_seeded, pl_feature_boundary,
                   boundaries_gdf, features_gdf, fetch_calls, ski_warnings, pl_error,
                   boundary_features, forest_features, rock_features>>
    /\ UNCHANGED <<tcVars, spVars, dsVars, clVars, fxVars,
                   tpVars, vcVars, bpVars, cfVars>>

(***************************************************************************)
(* Overpass fetch: OverpassClient.fetch_features and fetch_osm_features    *)
(***************************************************************************)

\* overpass.py, lines 21-22.
RETRY_DELAY == 5
MAX_RETRIES == 3

\* What a request can meet: "ok" a well-formed answer; "request_error" the
\* post raises (connection, timeout); "bad_status" raise_for_status raises;
\* "undecodable" response.json() raises; "malformed" the decoded answer makes
\* _convert_to_geojson raise (an element without 'type' or 'id', or a body
\* that is not an object).
FailureKinds == {"request_error", "bad_status", "undecodable", "malformed"}

\* Line 57: the handler takes requests.exceptions.RequestException only. The
\* error of response.json() is one in some releases of requests and a plain
\* ValueError in others; the errors of _convert_to_geojson never are.
Caught(kind, json_is_request_exception) ==
    \/ kind \in {"request_error", "bad_status"}
    \/ kind = "undecodable" /\ json_is_request_exception

\* Line 59.
ShouldRetryAlways(a) == a < MAX_RETRIES
ShouldRetry(a) == a < MAX_RETRIES - 1

Post == [event |-> "post", seconds |-> 0]
Sleep == [event |-> "sleep", seconds |-> RETRY_DELAY]

FetchIdle ==
    /\ fx_pc = "idle"
    /\ attempt = 0
    /\ responses = <<>>
    /\ fx_log = <<>>
    /\ json_error_caught = FALSE
    /\ fetch_outcome = "none"
    /\ cache_before = "absent"
    /\ cache_file = "absent"
    /\ failure = "none"
    /\ fetch_osm_result = "none"

\* fetch_osm_features is called, with or without a cached file.
FetchInit ==
    /\ fx_pc = "attempt"
    /\ attempt = 0
    /\ responses = <<>>
    /\ fx_log = <<>>
    /\ json_error_caught \in BOOLEAN
    /\ fetch_outcome = "none"
    /\ cache_before \in {"absent", "old"}
    /\ cache_file = cache_before
    /\ failure = "none"
    /\ fetch_osm_result = "none"

\* Lines 43-55: the request is answered and converted; fetch_features returns.
AttemptSucceeds ==
    /\ fx_pc = "attempt"
    /\ attempt < MAX_RETRIES
    /\ responses' = Append(responses, "ok")
    /\ fx_log' = Append(fx_log, Post)
    /\ fetch_outcome' = "returned"
    /\ fx_pc' = "fetched"
    /\ UNCHANGED <<attempt, json_error_caught, cache_before, cache_file, failure,
                   fetch_osm_result>>
    /\ UNCHANGED <<tcVars, spVars, dsVars, clVars, plVars,
                   tpVars, vcVars, bpVars, cfVars>>

\* Lines 57-61: a caught failure with retries left; sleep, next iteration.
AttemptRetries(kind) ==
    /\ fx_pc = "attempt"
    /\ attempt < MAX_RETRIES
    /\ Caught(kind, json_error_caught)
    /\ ShouldRetry(attempt)
    /\ responses' = Append(responses, kind)
    /\ fx_log' = fx_log \o <<Post, Sleep>>
    /\ attempt' = attempt + 1
    /\ UNCHANGED <<fx_pc, json_error_caught, fetch_outcome, cache_before, cache_file,
                   failure, fetch_osm_result>>
    /\ UNCHANGED <<tcVars, spVars, dsVars, clVars, plVars,
                   tpVars, vcVars, bpVars, cfVars>>

\* Lines 57-63: a caught failure of the last iteration is raised again.
AttemptRaises(kind) ==
    /\ fx_pc = "attempt"
    /\ attempt < MAX_RETRIES
    /\ Caught(kind, json_error_caught)
    /\ ~ShouldRetry(attempt)
    /\ responses' = Append(responses, kind)
    /\ fx_log' = Append(fx_log, Post)
    /\ fetch_outcome' = "raised"
    /\ failure' = "fetch"
    /\ fx_pc' = "handler"
    /\ UNCHANGED <<attempt, json_error_caught, cache_before, cache_file,
                   fetch_osm_result>>
    /\ UNCHANGED <<tcVars, spVars, dsVars, clVars, plVars,
                   tpVars, vcVars, bpVars, cfVars>>

\* Lines 52-53 raise an exception the handler of line 57 does not take: it
\* leaves fetch_features from whichever iteration it happens in.
AttemptEscapes(kind) ==
    /\ fx_pc = "attempt"
    /\ attempt < MAX_RETRIES
    /\ kind \in FailureKinds
    /\ ~Caught(kind, json_error_caught)
    /\ responses' = Append(responses, kind)
    /\ fx_log' = Append(fx_log, Post)
    /\ fetch_outcome' = "raised"
    /\ failure' = "fetch"
    /\ fx_pc' = "handler"
    /\ UNCHANGED <<attempt, json_error_caught, cache_before, cache_file,
                   fetch_osm_result>>
    /\ UNCHANGED <<tcVars, spVars, dsVars, clVars, plVars,
                   tpVars, vcVars, bpVars, cfVars>>

\* Lines 294-298: the collection is written and the path returned.
SaveSucceeds ==
    /\ fx_pc = "fetched"
    /\ cache_file' = "new"
    /\ fetch_osm_result' = "path"
    /\ fx_pc' = "done"
    /\ UNCHANGED <<attempt, responses, fx_log, json_error_caught, fetch_outcome,
                   cache_before, failure>>
    /\ UNCHANGED <<tcVars, spVars, dsVars, clVars, plVars,
                   tpVars, vcVars, bpVars, cfVars>>

\* Line 294 raises: the file could not be opened for writing.
SaveOpenFails ==
    /\ fx_pc = "fetched"
    /\ failure' = "open"
    /\ fx_pc' = "handler"
    /\ UNCHANGED <<attempt, responses, fx_log, json_error_caught, fetch_outcome,
                   cache_before, cache_file, fetch_osm_result>>
    /\ UNCHANGED <<tcVars, spVars, dsVars, clVars, plVars,
                   tpVars, vcVars, bpVars, cfVars>>

\* Line 295 raises: open(..., 'w') has created or truncated the file and the
\* write does not complete.
SaveWriteFails ==
    /\ fx_pc = "fetched"
    /\ cache_file' = "partial"
    /\ failure' = "write"
    /\ fx_pc' = "handler"
    /\ UNCHANGED <<attempt, responses, fx_log, json_error_caught, fetch_outcome,
                   cache_before, fetch_osm_result>>
    /\ UNCHANGED <<tcVars, spVars, dsVars, clVars, plVars,
                   tpVars, vcVars, bpVars, cfVars>>

\* Lines 300-306.
FallbackToCache ==
    /\ fx_pc = "handler"
    /\ cache_file # "absent"
    /\ fetch_osm_result' = "path"
    /\ fx_pc' = "done"
    /\ UNCHANGED <<attempt, responses, fx_log, json_error_caught, fetch_outcome,
                   cache_before, cache_file, failure>>
    /\ UNCHANGED <<tcVars, spVars, dsVars, clVars, plVars,
                   tpVars, vcVars, bpVars, cfVars>>

\* Lines 300-308.
Reraise ==
    /\ fx_pc = "handler"
    /\ cache_file = "absent"
    /\ fetch_osm_result' = "raised"
    /\ fx_pc' = "done"
    /\ UNCHANGED <<attempt, responses, fx_log, json_error_caught, fetch_outcome,
                   cache_before, cache_file, failure>>
    /\ UNCHANGED <<tcVars, spVars, dsVars, clVars, plVars,
                   tpVars, vcVars, bpVars, cfVars>>

(***************************************************************************)
(* Tree placement: random.seed, process_forest_features,                   *)
(* generate_tree_points, process_osm_tree_nodes, resort after resort       *)
(***************************************************************************)

\* constants.py, line 32.
DEFAULT_RANDOM_SEED == 42

\* tree_config['random_seed'] of a resort: the default, or a value it sets.
RandomSeeds == {DEFAULT_RANDOM_SEED, 7}

\* The state of the module-level generator of `random`: the seed it was last
\* given and the number of draws made since. A process starts with a state no
\* resort chose (the interpreter seeds the generator from the system).
PriorStreams == { [seed |-> s, pos |-> k] : s \in {0, 1}, k \in {0, 1} }

\* random.seed(a): the stream restarts from the seed.
RandomSeedKeepsPosition(state, a) == [seed |-> a, pos |-> state.pos]
RandomSeedFirstOnly(state, a) ==
    IF state.seed \in RandomSeeds THEN state ELSE [seed |-> a, pos |-> 0]
RandomSeed(state, a) == [seed |-> a, pos |-> 0]

\* random.uniform(lo, hi): the value is a function of the seed and of the
\* position in the stream, and the position advances by one. The value is
\* an index into the NumCells columns of the bounding box.
RandomUniform(state) ==
    [ value |-> (state.seed + (state.pos \div 2)
                  + (state.pos % 2) * (1 + state.pos \div 4)) % NumCells,
      state |-> [state EXCEPT !.pos = @ + 1] ]

\* Line 592.
SamplingContinuesOneMore(pts, n, att, limit) == Len(pts) <= n /\ att < limit
SamplingContinues(pts, n, att, limit) == Len(pts) < n /\ att < limit

\* _rejection_sampling_adaptive, lines 592-614, for a polygon whose
\* membership test does not raise: each iteration draws x (line 593) and y
\* (line 594) and tests the point (line 598).
RECURSIVE RejectionLoop(_, _, _, _, _, _)
RejectionLoop(p, n, pts, att, cf, state) ==
    IF ~SamplingContinues(pts, n, att, MaxAttempts(p, n))
    THEN [points |-> pts, rng |-> state]
    ELSE LET x == RandomUniform(state)
             y == RandomUniform(x.state)
             point == [x |-> x.value + 1, y |-> y.value]
         IN  IF MembershipTest(p, point.x)
             THEN IF EarlyStop(0, n)
                  THEN [points |-> Append(pts, point), rng |-> y.state]
                  ELSE RejectionLoop(p, n, Append(pts, point), att + 1, 0, y.state)
             ELSE IF EarlyStop(cf + 1, n)
                  THEN [points |-> pts, rng |-> y.state]
                  ELSE RejectionLoop(p, n, pts, att + 1, cf + 1, y.state)

\* generate_random_points_in_polygon, lines 515-534, with the stream it
\* reads and leaves. The grid phase ends in an exception before its first
\* draw (grid_based_sampling), so it consumes nothing.
generate_random_points_in_polygon(p, n, state) ==
    IF n <= 0
    THEN [points |-> <<>>, rng |-> state]
    ELSE LET g == grid_based_sampling(p, n)
         IN  IF g.exception = "none" /\ GridAccepted(Len(g.points), n)
             THEN [points |-> SubSeq(g.points, 1, Min(Len(g.points), n)),
                   rng |-> state]
             ELSE RejectionLoop(p, n, <<>>, 0, 0, state)

\* A forest row of the OSM frame on the lattice of Cells: the polygons it is
\* made of, in order (pairwise disjoint). collection: its overlap with a
\* boundary also has a line (a shared edge), so the clipped geometry is a
\* GeometryCollection (overlay is called with keep_geom_type=False).
ForestParts == (SUBSET Cells) \ {{}}
ForestGeometries ==
    { [parts |-> <<a>>, collection |-> t] : a \in ForestParts, t \in BOOLEAN }
    \cup { [parts |-> <<q[1], q[2]>>, collection |-> t] :
             q \in { r \in ForestParts \X ForestParts : r[1] \cap r[2] = {} },
             t \in BOOLEAN }
ForestFrames ==
    {<<>>} \cup { <<g>> : g \in ForestGeometries }
    \cup { << [parts |-> <<a>>, collection |-> FALSE],
              [parts |-> <<b>>, collection |-> FALSE] >> :
             a \in ForestParts, b \in ForestParts }

\* The tree_config of a resort: the defaults with a small maximum, and the
\* same with a minimum area of two cells.
PlacementTreeConfigs ==
    { [DefaultTreeConfig EXCEPT !.max_trees_per_polygon = MaxPoints],
      [DefaultTreeConfig EXCEPT !.max_trees_per_polygon = MaxPoints,
                                !.min_area_for_trees = 2 * AreaStep] }

\* A resort: its seed and tree_config, the feature boundary load_data finds,
\* the forest rows of its OSM frame, and the OSM tree nodes (one in every
\* cell of the lattice).
Resorts ==
    [ random_seed : RandomSeeds,
      tree_config : PlacementTreeConfigs,
      feature_boundary : (SUBSET Cells) \ {{}},
      forest_gdf : ForestFrames,
      tree_nodes : { [c \in Cells |-> c] } ]

\* Resorts that run before another one in the same process.
EarlierResorts ==
    { r \in Resorts :
        /\ r.feature_boundary = Cells
        /\ r.forest_gdf = << [parts |-> <<Cells>>, collection |-> FALSE] >>
        /\ r.tree_config.min_area_for_trees = DefaultTreeConfig.min_area_for_trees }

ResortLists ==
    { <<a>> : a \in Resorts }
    \cup { <<e, a>> : e \in EarlierResorts, a \in Resorts }
    \cup { <<a, a>> : a \in Resorts }

\* clip_to_boundary on a forest row, lines 406-415 (and 439-444): the parts
\* of the intersection with the boundary; rows without area are dropped.
ClipForestGeometry(g, b) ==
    LET cut == [i \in 1..Len(g.parts) |-> g.parts[i] \cap b]
        kept == SelectSeq(cut, LAMBDA s : s # {})
    IN  [ parts |-> kept,
          geom_type |-> IF g.collection THEN "GeometryCollection"
                        ELSE IF Len(kept) > 1 THEN "MultiPolygon"
                        ELSE "Polygon" ]
clip_forest_gdf(frame, b) ==
    SelectSeq([i \in 1..Len(frame) |-> ClipForestGeometry(frame[i], b)],
              LAMBDA g : g.parts # <<>>)

\* _calculate_area_in_sq_meters: a cell measures AreaStep square metres.
PartAreaSqMeters(s) == AreaStep * Cardinality(s)
GeometryAreaSqMeters(g) ==
    SeqSum([i \in 1..Len(g.parts) |-> PartAreaSqMeters(g.parts[i])])

\* _extract_valid_polygons, lines 691-698.
extract_valid_polygons(g) ==
    IF g.geom_type \in {"Polygon", "MultiPolygon"} THEN g.parts ELSE <<>>

\* The polygon of a part as the sampler sees it: valid, its bounding box the
\* lattice.
PartPolygon(s) == [inside |-> s, status |-> "valid", bbox_area |-> NumCells]

\* Lines 763-769: the parts are sampled one after the other, each from the
\* stream the one before left; a part with a count of 0 is skipped.
RECURSIVE SampleParts(_, _, _, _, _)
SampleParts(parts, counts, i, polygon_id, state) ==
    IF i > Len(parts)
    THEN [points |-> <<>>, rng |-> state]
    ELSE LET here == IF counts[i] > 0
                     THEN generate_random_points_in_polygon(
                              PartPolygon(parts[i]), counts[i], state)
                     ELSE [points |-> <<>>, rng |-> state]
             rest == SampleParts(parts, counts, i + 1, polygon_id, here.rng)
         IN  [ points |->
                 [k \in 1..Len(here.points) |->
                     [ x |-> here.points[k].x, y |-> here.points[k].y,
                       source_polygon_id |-> polygon_id ]] \o rest.points,
               rng |-> rest.rng ]

\* _process_forest_geometry, lines 740-771.
process_forest_geometry(g, polygon_id, cfg, state) ==
    LET tree_target == calculate_tree_count(cfg, GeometryAreaSqMeters(g))
        valid_polygons == extract_valid_polygons(g)
        areas == [i \in 1..Len(valid_polygons) |->
                     PartAreaSqMeters(valid_polygons[i])]
        none == [points |-> <<>>, rng |-> state]
        made == IF tree_target = 0 \/ valid_polygons = <<>>
                THEN none
                ELSE SampleParts(valid_polygons,
                         distribute_trees_across_polygons(areas, tree_target),
                         1, polygon_id, state)
    IN  [ polygon_id |-> polygon_id,
          target |-> tree_target,
          parts |-> Len(valid_polygons),
          points |-> made.points,
          draws |-> made.rng.pos - state.pos,
          rng |-> made.rng ]

\* process_osm_tree_nodes, lines 660-667: the nodes the boundary contains.
KeepTreeNodeAlways(b, c) == TRUE
KeepTreeNode(b, c) == c \in b
osm_tree_nodes(nodes, b) ==
    LET kept == SelectSeq(nodes, LAMBDA c : KeepTreeNode(b, c))
    IN  [k \in 1..Len(kept) |-> [x |-> kept[k], source |-> "osm"]]

PlacementIdle ==
    /\ tp_pc = "idle"
    /\ rng = [seed |-> 0, pos |-> 0]
    /\ resorts_to_process = <<>>
    /\ resort_index = 0
    /\ clipped_forest_gdf = <<>>
    /\ forest_index = 0
    /\ tree_points = <<>>
    /\ forest_log = <<>>
    /\ osm_nodes_kept = <<>>
    /\ resort_results = <<>>

PlacementInit ==
    /\ tp_pc = "start"
    /\ rng \in PriorStreams
    /\ resorts_to_process \in ResortLists
    /\ resort_index = 1
    /\ clipped_forest_gdf = <<>>
    /\ forest_index = 0
    /\ tree_points = <<>>
    /\ forest_log = <<>>
    /\ osm_nodes_kept = <<>>
    /\ resort_results = <<>>

Resort == resorts_to_process[resort_index]

\* create_output_geojson, line 946.
SeedRandom ==
    /\ tp_pc = "start"
    /\ rng' = RandomSeed(rng, Resort.random_seed)
    /\ tp_pc' = "seeded"
    /\ UNCHANGED <<resorts_to_process, resort_index, clipped_forest_gdf,
                   forest_index, tree_points, forest_log, osm_nodes_kept,
                   resort_results>>
    /\ UNCHANGED <<tcVars, spVars, dsVars, clVars, plVars,
                   fxVars, vcVars, bpVars, cfVars>>

\* process_forest_features, lines 810-813, after load_data set the boundary.
ClipForests ==
    /\ tp_pc = "seeded"
    /\ clipped_forest_gdf' = clip_forest_gdf(Resort.forest_gdf, Resort.feature_boundary)
    /\ forest_index' = 1
    /\ tp_pc' = "forests"
    /\ UNCHANGED <<rng, resorts_to_process, resort_index, tree_points, forest_log,
                   osm_nodes_kept, resort_results>>
    /\ UNCHANGED <<tcVars, spVars, dsVars, clVars, plVars,
                   fxVars, vcVars, bpVars, cfVars>>

ForestCall ==
    process_forest_geometry(clipped_forest_gdf[forest_index], forest_index,
                            Resort.tree_config, rng)

\* generate_tree_points, one row: _process_forest_geometry returns at line 750.
ForestZeroTarget ==
    /\ tp_pc = "forests"
    /\ forest_index <= Len(clipped_forest_gdf)
    /\ ForestCall.target = 0
    /\ forest_log' = Append(forest_log, [ForestCall EXCEPT !.rng = 0])
    /\ forest_index' = forest_index + 1
    /\ UNCHANGED <<tp_pc, rng, resorts_to_process, resort_index, clipped_forest_gdf,
                   tree_points, osm_nodes_kept, resort_results>>
    /\ UNCHANGED <<tcVars, spVars, dsVars, clVars, plVars,
                   fxVars, vcVars, bpVars, cfVars>>

\* One row: _process_forest_geometry returns at line 755.
ForestNoParts ==
    /\ tp_pc = "forests"
    /\ forest_index <= Len(clipped_forest_gdf)
    /\ ForestCall.target # 0
    /\ ForestCall.parts = 0
    /\ forest_log' = Append(forest_log, [ForestCall EXCEPT !.rng = 0])
    /\ forest_index' = forest_index + 1
    /\ UNCHANGED <<tp_pc, rng, resorts_to_process, resort_index, clipped_forest_gdf,
                   tree_points, osm_nodes_kept, resort_results>>
    /\ UNCHANGED <<tcVars, spVars, dsVars, clVars, plVars,
                   fxVars, vcVars, bpVars, cfVars>>

\* One row: lines 757-771, and line 784 of generate_tree_points.
ForestGenerate ==
    /\ tp_pc = "forests"
    /\ forest_index <= Len(clipped_forest_gdf)
    /\ ForestCall.target # 0
    /\ ForestCall.parts # 0
    /\ tree_points' = tree_points \o ForestCall.points
    /\ rng' = ForestCall.rng
    /\ forest_log' = Append(forest_log, [ForestCall EXCEPT !.rng = 0])
    /\ forest_index' = forest_index + 1
    /\ UNCHANGED <<tp_pc, resorts_to_process, resort_index, clipped_forest_gdf,
                   osm_nodes_kept, resort_results>>
    /\ UNCHANGED <<tcVars, spVars, dsVars, clVars, plVars,
                   fxVars, vcVars, bpVars, cfVars>>

\* create_output_geojson, line 953, once the forest rows are done.
PlaceOsmTreeNodes ==
    /\ tp_pc = "forests"
    /\ forest_index > Len(clipped_forest_gdf)
    /\ osm_nodes_kept' = osm_tree_nodes(Resort.tree_nodes, Resort.feature_boundary)
    /\ tp_pc' = "nodes"
    /\ UNCHANGED <<rng, resorts_to_process, resort_index, clipped_forest_gdf,
                   forest_index, tree_points, forest_log, resort_results>>
    /\ UNCHANGED <<tcVars, spVars, dsVars, clVars, plVars,
                   fxVars, vcVars, bpVars, cfVars>>

\* The resort is finished; the loop of process_resort.py line 99 (or of
\* batch_process.py line 142) goes on to the next one in the same process.
FinishResort ==
    /\ tp_pc = "nodes"
    /\ resort_results' =
          Append(resort_results,
                 [ generated |-> tree_points, osm |-> osm_nodes_kept,
                   log |-> forest_log, clipped |-> clipped_forest_gdf ])
    /\ resort_index' = resort_index + 1
    /\ tp_pc' = IF resort_index = Len(resorts_to_process) THEN "done" ELSE "start"
    /\ clipped_forest_gdf' = <<>>
    /\ forest_index' = 0
    /\ tree_points' = <<>>
    /\ forest_log' = <<>>
    /\ osm_nodes_kept' = <<>>
    /\ UNCHANGED <<rng, resorts_to_process>>
    /\ UNCHANGED <<tcVars, spVars, dsVars, clVars, plVars,
                   fxVars, vcVars, bpVars, cfVars>>

(***************************************************************************)
(* Configuration validation: _validate_config_consistency                  *)
(***************************************************************************)

\* Densities a tree_config may set, with a non-positive value in each place.
ValidatedDensityChoices ==
    DensityChoices
    \cup { <<0, 10, 20, 40>>, <<4, -1, 20, 40>>, <<4, 10, 0, 40>>, <<4, 10, 20, 0>>,
           <<0, 0, 0, 0>> }

\* The configurations that are validated: every combination of the threshold
\* choices (increasing or not), the densities above, and a maximum on either
\* side of the warning level of line 246.
ValidatedTreeConfigs ==
    { [ DefaultTreeConfig EXCEPT
          !.small_area_threshold          = s,
          !.medium_area_threshold         = m,
          !.large_area_threshold          = l,
          !.extra_large_area_threshold    = x,
          !.trees_per_small_hectare       = d[1],
          !.trees_per_medium_hectare      = d[2],
          !.trees_per_large_hectare       = d[3],
          !.trees_per_extra_large_hectare = d[4],
          !.max_trees_per_polygon         = mx ] :
        s \in SmallChoices, m \in MediumChoices \cup {1000000},
        l \in LargeChoices, x \in ExtraLargeChoices,
        d \in ValidatedDensityChoices,
        mx \in {DEFAULT_MAX_TREES_PER_POLYGON, DEFAULT_MAX_TREES_PER_POLYGON + 1} }

\* _validate_config_consistency, lines 229-254: the first check that fails
\* raises; the thresholds are compared at line 249 only.
ValidationErrorOf(cfg) ==
    CASE cfg.trees_per_small_hectare <= 0 ->
             "trees_per_small_hectare must be positive"
      [] cfg.trees_per_medium_hectare <= 0 ->
             "trees_per_medium_hectare must be positive"
      [] cfg.trees_per_large_hectare <= 0 ->
             "trees_per_large_hectare must be positive"
      [] cfg.trees_per_extra_large_hectare <= 0 ->
             "trees_per_extra_large_hectare must be positive"
      [] cfg.small_area_threshold >= cfg.medium_area_threshold ->
             "small_area_threshold must be less than medium_area_threshold"
      [] OTHER -> "none"

\* Lines 246-247 and 252-253: the warnings logged before the function ends.
ValidationWarningsOf(cfg) ==
    LET densities_ok ==
            /\ cfg.trees_per_small_hectare > 0
            /\ cfg.trees_per_medium_hectare > 0
            /\ cfg.trees_per_large_hectare > 0
            /\ cfg.trees_per_extra_large_hectare > 0
        high_max == IF cfg.max_trees_per_polygon > 1000 THEN 1 ELSE 0
        big_medium == IF cfg.medium_area_threshold >= 1000000 THEN 1 ELSE 0
    IN  IF ~densities_ok THEN 0
        ELSE IF cfg.small_area_threshold >= cfg.medium_area_threshold
             THEN high_max
             ELSE high_max + big_medium

ValidateIdle ==
    /\ vc_pc = "idle"
    /\ vc_tree_config = DefaultTreeConfig
    /\ validation_error = "none"
    /\ vc_warnings = 0
    /\ results_valid = TRUE

ValidateInit ==
    /\ vc_pc = "start"
    /\ vc_tree_config \in ValidatedTreeConfigs
    /\ validation_error = "none"
    /\ vc_warnings = 0
    /\ results_valid = TRUE

\* validate_input_files, lines 149-157: _validate_config_consistency returns.
ConfigAccepted ==
    /\ vc_pc = "start"
    /\ ValidationErrorOf(vc_tree_config) = "none"
    /\ vc_warnings' = ValidationWarningsOf(vc_tree_config)
    /\ vc_pc' = "done"
    /\ UNCHANGED <<vc_tree_config, validation_error, results_valid>>
    /\ UNCHANGED <<tcVars, spVars, dsVars, clVars, plVars,
                   fxVars, tpVars, bpVars, cfVars>>

\* Lines 149-157: _validate_config_consistency raises ValidationError, which
\* validate_input_files records.
ConfigRejected ==
    /\ vc_pc = "start"
    /\ ValidationErrorOf(vc_tree_config) # "none"
    /\ validation_error' = ValidationErrorOf(vc_tree_config)
    /\ vc_warnings' = ValidationWarningsOf(vc_tree_config)
    /\ results_valid' = FALSE
    /\ vc_pc' = "done"
    /\ UNCHANGED vc_tree_config
    /\ UNCHANGED <<tcVars, spVars, dsVars, clVars, plVars,
                   fxVars, tpVars, bpVars, cfVars>>

(***************************************************************************)
(* Batch runs: batch_process.py and process_resort.py over several resorts *)
(***************************************************************************)

\* Largest number of resorts requested in one invocation.
MaxResorts == 3

\* What processing a resort meets: "ok" create_output_geojson returns and
\* the file is written; "pipeline_raises" create_output_geojson (or the
\* construction of the processor) raises; "write_raises" mkdir, open or
\* json.dump raises.
ResortBehaviours == {"ok", "pipeline_raises", "write_raises"}

BatchScripts == {"batch_sequential", "batch_parallel", "process_resort"}

RequestedResorts == UNION { [1..n -> ResortBehaviours] : n \in 1..MaxResorts }

\* The keys of output_geojson['metadata'], processor.py lines 968-984.
MetadataKeys ==
    { "generator", "resort_name", "timestamp", "total_features",
      "boundary_features", "forest_features", "tree_points_total",
      "tree_points_osm", "tree_points_generated", "tree_id_range",
      "rock_features", "tree_config", "center", "zoom", "bounds" }

\* batch_process.py line 43: the keys the success message reads.
SummaryKeys == {"total_features", "tree_points"}

\* batch_process.process_single_resort, lines 22-47: the tuple it returns
\* and whether the output file was written. The message of line 43 is built
\* inside the try block, after the file is written.
process_single_resort(resort, behaviour) ==
    LET written == behaviour = "ok"
        message_raises == ~(SummaryKeys \subseteq MetadataKeys)
    IN  [ resort |-> resort,
          success |-> written /\ ~message_raises,
          written |-> written,
          error |-> CASE behaviour # "ok" -> behaviour
                      [] message_raises -> "KeyError"
                      [] OTHER -> "none" ]

\* process_resort.py lines 100-169, one iteration: the summary reads
\* tree_points_total or tree_points only when the key is there.
process_resort_iteration(resort, behaviour) ==
    [ resort |-> resort,
      success |-> behaviour = "ok",
      written |-> behaviour = "ok",
      error |-> IF behaviour = "ok" THEN "none" ELSE behaviour ]

Failed(entries) == { i \in 1..Len(entries) : ~entries[i].success }

BatchIdle ==
    /\ bp_pc = "idle"
    /\ bp_script = "none"
    /\ bp_behaviour = <<>>
    /\ bp_pending = {}
    /\ results = <<>>
    /\ files_written = {}
    /\ exit_status = -1

BatchInit ==
    /\ bp_pc = "running"
    /\ bp_script \in BatchScripts
    /\ bp_behaviour \in RequestedResorts
    /\ bp_pending = DOMAIN bp_behaviour
    /\ results = <<>>
    /\ files_written = {}
    /\ exit_status = -1

Record(entry) ==
    /\ results' = Append(results, entry)
    /\ files_written' = IF entry.written
                        THEN files_written \cup {entry.resort}
                        ELSE files_written

\* batch_process.py lines 142-148: the next resort of the list.
BatchSequentialStep ==
    /\ bp_pc = "running"
    /\ bp_script = "batch_sequential"
    /\ bp_pending # {}
    /\ LET resort == Len(results) + 1
       IN  /\ Record(process_single_resort(resort, bp_behaviour[resort]))
           /\ bp_pending' = bp_pending \ {resort}
    /\ UNCHANGED <<bp_pc, bp_script, bp_behaviour, exit_status>>
    /\ UNCHANGED <<tcVars, spVars, dsVars, clVars, plVars,
                   fxVars, tpVars, vcVars, cfVars>>

\* batch_process.py lines 129-140: every resort was submitted once; the
\* futures complete in any order and each result is appended once.
BatchParallelStep ==
    /\ bp_pc = "running"
    /\ bp_script = "batch_parallel"
    /\ \E resort \in bp_pending :
          /\ Record(process_single_resort(resort, bp_behaviour[resort]))
          /\ bp_pending' = bp_pending \ {resort}
    /\ UNCHANGED <<bp_pc, bp_script, bp_behaviour, exit_status>>
    /\ UNCHANGED <<tcVars, spVars, dsVars, clVars, plVars,
                   fxVars, tpVars, vcVars, cfVars>>

\* batch_process.py lines 150-169.
BatchExit ==
    /\ bp_pc = "running"
    /\ bp_script \in {"batch_sequential", "batch_parallel"}
    /\ bp_pending = {}
    /\ exit_status' = IF Failed(results) # {} THEN 1 ELSE 0
    /\ bp_pc' = "exited"
    /\ UNCHANGED <<bp_script, bp_behaviour, bp_pending, results, files_written>>
    /\ UNCHANGED <<tcVars, spVars, dsVars, clVars, plVars,
                   fxVars, tpVars, vcVars, cfVars>>

\* process_resort.py lines 99-164: the next resort of the list; with a
\* single resort a failure exits at line 164.
ProcessResortStep ==
    /\ bp_pc = "running"
    /\ bp_script = "process_resort"
    /\ bp_pending # {}
    /\ LET resort == Len(results) + 1
           entry == process_resort_iteration(resort, bp_behaviour[resort])
       IN  /\ Record(entry)
           /\ bp_pending' = bp_pending \ {resort}
           /\ IF ~entry.success /\ Len(bp_behaviour) = 1
              THEN exit_status' = 1 /\ bp_pc' = "exited"
              ELSE UNCHANGED <<exit_status, bp_pc>>
    /\ UNCHANGED <<bp_script, bp_behaviour>>
    /\ UNCHANGED <<tcVars, spVars, dsVars, clVars, plVars,
                   fxVars, tpVars, vcVars, cfVars>>

\* process_resort.py lines 166-180.
ProcessResortExit ==
    /\ bp_pc = "running"
    /\ bp_script = "process_resort"
    /\ bp_pending = {}
    /\ exit_status' = IF Len(bp_behaviour) > 1 /\ Failed(results) # {}
                      THEN 1 ELSE 0
    /\ bp_pc' = "exited"
    /\ UNCHANGED <<bp_script, bp_behaviour, bp_pending, results, files_written>>
    /\ UNCHANGED <<tcVars, spVars, dsVars, clVars, plVars,
                   fxVars, tpVars, vcVars, cfVars>>

(***************************************************************************)
(* Classification of OSM rows: the masks of process_forest_features,       *)
(* process_osm_tree_nodes and process_rock_features                        *)
(***************************************************************************)

\* The value of a tag a row does not carry (NaN in the frame).
Absent == "absent"

\* Line 857.
ROCK_NATURAL_VALUES == {"rock", "cliff", "scree", "bare_rock", "stone"}

NaturalValues == {Absent, "wood", "tree", "water"} \cup ROCK_NATURAL_VALUES
LanduseValues == {Absent, "forest", "quarry", "meadow"}

TaggedRows ==
    [ natural : NaturalValues, landuse : LanduseValues,
      geom_type : {"Point", "Polygon"} ]

\* Frames of one row, and of two rows whose second is one of a few; a frame
\* has a column exactly when one of its rows carries the tag.
SecondRows ==
    { [natural |-> Absent, landuse |-> Absent, geom_type |-> "Polygon"],
      [natural |-> "tree", landuse |-> Absent, geom_type |-> "Point"],
      [natural |-> Absent, landuse |-> "forest", geom_type |-> "Polygon"] }
TaggedFrames ==
    {<<>>} \cup { <<r>> : r \in TaggedRows }
    \cup { <<r, q>> : r \in TaggedRows, q \in SecondRows }

\* 'natural' in features_gdf.columns, 'landuse' in features_gdf.columns.
HasColumn(frame, tag) ==
    \E i \in 1..Len(frame) :
        (IF tag = "natural" THEN frame[i].natural ELSE frame[i].landuse) # Absent

\* process_forest_features, lines 797-805.
ForestMask(frame) ==
    { i \in 1..Len(frame) :
        \/ HasColumn(frame, "landuse") /\ frame[i].landuse = "forest"
        \/ HasColumn(frame, "natural") /\ frame[i].natural = "wood" }

\* process_osm_tree_nodes, lines 645-655: the geometry type is tested only
\* when some row has natural = tree.
TreeMaskAnyGeometry(frame) ==
    IF HasColumn(frame, "natural")
    THEN { i \in 1..Len(frame) : frame[i].natural = "tree" }
    ELSE {}
TreeMask(frame) ==
    LET tree_mask == IF HasColumn(frame, "natural")
                     THEN { i \in 1..Len(frame) : frame[i].natural = "tree" }
                     ELSE {}
    IN  IF tree_mask # {}
        THEN { i \in tree_mask : frame[i].geom_type = "Point" }
        ELSE tree_mask

\* process_rock_features, lines 853-861.
RockMask(frame) ==
    { i \in 1..Len(frame) :
        \/ HasColumn(frame, "natural") /\ frame[i].natural \in ROCK_NATURAL_VALUES
        \/ HasColumn(frame, "landuse") /\ frame[i].landuse = "quarry" }

ClassifyIdle ==
    /\ cf_pc = "idle"
    /\ osm_rows = <<>>
    /\ forest_rows = {}
    /\ tree_rows = {}
    /\ rock_rows = {}

ClassifyInit ==
    /\ cf_pc = "loaded"
    /\ osm_rows \in TaggedFrames
    /\ forest_rows = {}
    /\ tree_rows = {}
    /\ rock_rows = {}

\* create_output_geojson line 952: the rows process_forest_features selects
\* (none for an empty frame, line 793).
SelectForests ==
    /\ cf_pc = "loaded"
    /\ forest_rows' = IF osm_rows = <<>> THEN {} ELSE ForestMask(osm_rows)
    /\ cf_pc' = "forests"
    /\ UNCHANGED <<osm_rows, tree_rows, rock_rows>>
    /\ UNCHANGED <<tcVars, spVars, dsVars, clVars, plVars, fxVars, tpVars, vcVars,
                   bpVars>>

\* Line 953: the rows process_osm_tree_nodes selects (line 642).
SelectTreeNodes ==
    /\ cf_pc = "forests"
    /\ tree_rows' = IF osm_rows = <<>> THEN {} ELSE TreeMask(osm_rows)
    /\ cf_pc' = "trees"
    /\ UNCHANGED <<osm_rows, forest_rows, rock_rows>>
    /\ UNCHANGED <<tcVars, spVars, dsVars, clVars, plVars, fxVars, tpVars, vcVars,
                   bpVars>>

\* Line 954: the rows process_rock_features selects (line 849).
SelectRocks ==
    /\ cf_pc = "trees"
    /\ rock_rows' = IF osm_rows = <<>> THEN {} ELSE RockMask(osm_rows)
    /\ cf_pc' = "rocks"
    /\ UNCHANGED <<osm_rows, forest_rows, tree_rows>>
    /\ UNCHANGED <<tcVars, spVars, dsVars, clVars, plVars, fxVars, tpVars, vcVars,
                   bpVars>>

(***************************************************************************)
(* Specifications                                                          *)
(***************************************************************************)

TreeCountNext == CalculateTreeCount

InitTreeCount == TreeCountInit /\ SamplerIdle /\ DistributeIdle /\ ClipIdle /\ PipelineIdle
    /\ FetchIdle
    /\ PlacementIdle
    /\ ValidateIdle
    /\ BatchIdle
    /\ ClassifyIdle

SpecTreeCount == InitTreeCount /\ [][TreeCountNext]_vars

SamplerNext ==
    \/ ReturnEmpty
    \/ GridPhase
    \/ RejectionStart
    \/ \E c \in Cells : RejectionAccept(c)
    \/ \E c \in Cells : RejectionReject(c)
    \/ \E c \in Cells : RejectionRaise(c)
    \/ LoopExit
    \/ WarnAndReturn
    \/ CallerAppends

DistributeNext == DistributeTrees

InitDistribute == TreeCountIdle /\ SamplerIdle /\ DistributeInit /\ ClipIdle /\ PipelineIdle
    /\ FetchIdle
    /\ PlacementIdle
    /\ ValidateIdle
    /\ BatchIdle
    /\ ClassifyIdle

SpecDistribute == InitDistribute /\ [][DistributeNext]_vars

InitSampler == TreeCountIdle /\ SamplerInit /\ DistributeIdle /\ ClipIdle /\ PipelineIdle
    /\ FetchIdle
    /\ PlacementIdle
    /\ ValidateIdle
    /\ BatchIdle
    /\ ClassifyIdle

SpecSampler == InitSampler /\ [][SamplerNext]_vars

ClipNext ==
    \/ ClipNoBoundary
    \/ ClipEmpty
    \/ ClipIndexed
    \/ ClipRepairRaises
    \/ ClipIndexRaises
    \/ ClipFallback
    \/ ReclipEmpty
    \/ ReclipIndexed
    \/ ReclipFallback

InitClip ==
    TreeCountIdle /\ SamplerIdle /\ DistributeIdle /\ ClipInit /\ PipelineIdle
    /\ FetchIdle
    /\ PlacementIdle
    /\ ValidateIdle
    /\ BatchIdle
    /\ ClassifyIdle

SpecClip == InitClip /\ [][ClipNext]_vars

PipelineNext ==
    \/ Seed
    \/ LoadBoundariesMissing
    \/ LoadNoFeatureBoundary
    \/ LoadData
    \/ ProcessBoundaryFeatures
    \/ ProcessForestFeatures
    \/ ProcessOsmTreeNodes
    \/ ProcessRockFeatures
    \/ Merge

InitPipeline ==
    TreeCountIdle /\ SamplerIdle /\ DistributeIdle /\ ClipIdle /\ PipelineInit
    /\ FetchIdle
    /\ PlacementIdle
    /\ ValidateIdle
    /\ BatchIdle
    /\ ClassifyIdle

SpecPipeline == InitPipeline /\ [][PipelineNext]_vars

FetchNext ==
    \/ AttemptSucceeds
    \/ \E kind \in FailureKinds : AttemptRetries(kind)
    \/ \E kind \in FailureKinds : AttemptRaises(kind)
    \/ \E kind \in FailureKinds : AttemptEscapes(kind)
    \/ SaveSucceeds
    \/ SaveOpenFails
    \/ SaveWriteFails
    \/ FallbackToCache
    \/ Reraise

InitFetch ==
    TreeCountIdle /\ SamplerIdle /\ DistributeIdle /\ ClipIdle /\ PipelineIdle
    /\ FetchInit
    /\ PlacementIdle
    /\ ValidateIdle
    /\ BatchIdle
    /\ ClassifyIdle

SpecFetch == InitFetch /\ [][FetchNext]_vars

PlacementNext ==
    \/ SeedRandom
    \/ ClipForests
    \/ ForestZeroTarget
    \/ ForestNoParts
    \/ ForestGenerate
    \/ PlaceOsmTreeNodes
    \/ FinishResort

InitPlacement ==
    TreeCountIdle /\ SamplerIdle /\ DistributeIdle /\ ClipIdle /\ PipelineIdle
    /\ FetchIdle
    /\ PlacementInit
    /\ ValidateIdle
    /\ BatchIdle
    /\ ClassifyIdle

SpecPlacement == InitPlacement /\ [][PlacementNext]_vars

ValidateNext ==
    \/ ConfigAccepted
    \/ ConfigRejected

InitValidate ==
    TreeCountIdle /\ SamplerIdle /\ DistributeIdle /\ ClipIdle /\ PipelineIdle
    /\ FetchIdle /\ PlacementIdle
    /\ ValidateInit
    /\ BatchIdle
    /\ ClassifyIdle

SpecValidate == InitValidate /\ [][ValidateNext]_vars

BatchNext ==
    \/ BatchSequentialStep
    \/ BatchParallelStep
    \/ BatchExit
    \/ ProcessResortStep
    \/ ProcessResortExit

InitBatch ==
    TreeCountIdle /\ SamplerIdle /\ DistributeIdle /\ ClipIdle /\ PipelineIdle
    /\ FetchIdle /\ PlacementIdle /\ ValidateIdle
    /\ BatchInit
    /\ ClassifyIdle

SpecBatch == InitBatch /\ [][BatchNext]_vars

ClassifyNext ==
    \/ SelectForests
    \/ SelectTreeNodes
    \/ SelectRocks

InitClassify ==
    TreeCountIdle /\ SamplerIdle /\ DistributeIdle /\ ClipIdle /\ PipelineIdle
    /\ FetchIdle /\ PlacementIdle /\ ValidateIdle /\ BatchIdle
    /\ ClassifyInit

SpecClassify == InitClassify /\ [][ClassifyNext]_vars

(***************************************************************************)
(* Properties of the tree density model                                    *)
(***************************************************************************)

TreeCountDone == tc_pc = "done"
Qualifies == area_sq_meters >= tree_config.min_area_for_trees
IncreasingThresholds ==
    /\ tree_config.small_area_threshold <= tree_config.medium_area_threshold
    /\ tree_config.medium_area_threshold <= tree_config.large_area_threshold
    /\ tree_config.large_area_threshold <= tree_config.extra_large_area_threshold

\* floor(area / 10000 * rate) clamped into [lo, hi], written out by cases.
ClampedCount(area, rate, lo, hi) ==
    LET raw == (area * rate) \div HECTARE_TO_SQ_METERS
    IN  IF raw < lo THEN lo ELSE IF raw > hi THEN hi ELSE raw

\* C1 as stated: the extra-large rate is used exactly when the area is above
\* extra_large_area_threshold (and the large rate up to large_area_threshold).
C1_ExtraLargeAboveFourthThreshold ==
    (TreeCountDone /\ Qualifies /\ IncreasingThresholds) =>
        /\ (tc_tier = "large") <=>
              (/\ area_sq_meters > tree_config.medium_area_threshold
               /\ area_sq_meters <= tree_config.large_area_threshold)
        /\ (tc_tier = "extra_large") <=>
              (area_sq_meters > tree_config.extra_large_area_threshold)

\* C1 amended: with increasing thresholds the rate is the small one for
\* area <= small, the medium one for small < area <= medium, the large one for
\* medium < area <= large, and the extra-large one exactly when area > large:
\* three thresholds decide, extra_large_area_threshold plays no part.
C1_TierByThreeThresholds ==
    (TreeCountDone /\ Qualifies /\ IncreasingThresholds) =>
        /\ (tc_tier = "small") <=>
              (area_sq_meters <= tree_config.small_area_threshold)
        /\ (tc_tier = "medium") <=>
              (/\ area_sq_meters > tree_config.small_area_threshold
               /\ area_sq_meters <= tree_config.medium_area_threshold)
        /\ (tc_tier = "large") <=>
              (/\ area_sq_meters > tree_config.medium_area_threshold
               /\ area_sq_meters <= tree_config.large_area_threshold)
        /\ (tc_tier = "extra_large") <=>
              (area_sq_meters > tree_config.large_area_threshold)
        /\ tree_count =
              ClampTreeCount(tree_config,
                  RawTreeCount(area_sq_meters,
                      IF area_sq_meters <= tree_config.small_area_threshold
                          THEN tree_config.trees_per_small_hectare
                      ELSE IF area_sq_meters <= tree_config.medium_area_threshold
                          THEN tree_config.trees_per_medium_hectare
                      ELSE IF area_sq_meters <= tree_config.large_area_threshold
                          THEN tree_config.trees_per_large_hectare
                      ELSE tree_config.trees_per_extra_large_hectare))

\* An area between the third and the fourth threshold got the extra-large rate.
C1_Witness ==
    /\ TreeCountDone /\ Qualifies /\ IncreasingThresholds
    /\ tc_tier = "extra_large"
    /\ area_sq_meters > tree_config.large_area_threshold
    /\ area_sq_meters <= tree_config.extra_large_area_threshold
    /\ tree_config.trees_per_extra_large_hectare # tree_config.trees_per_large_hectare

C3_MonotoneWithinTier ==
    (TreeCountDone /\ Qualifies) =>
        \A b \in Areas :
            (/\ area_sq_meters <= b
             /\ DensityTier(tree_config, b) = tc_tier) =>
                tree_count <= calculate_tree_count(tree_config, b)

\* A larger area of the same tier got strictly more trees.
C3_Witness ==
    /\ TreeCountDone /\ Qualifies
    /\ \E b \in Areas :
          /\ area_sq_meters < b
          /\ DensityTier(tree_config, b) = tc_tier
          /\ tree_count < calculate_tree_count(tree_config, b)

IsFixture ==
    \E mx \in {100, 200, DEFAULT_MAX_TREES_PER_POLYGON} :
        tree_config = FixtureTreeConfig(mx)

\* C4 as stated: the fixture's 100,000 square meters give the large tier and
\* 300 trees, clamped to max_trees_per_polygon.
C4_Returns300Clamped ==
    (TreeCountDone /\ IsFixture /\ area_sq_meters = 100000) =>
        /\ tc_tier = "large"
        /\ tree_count = Min(tree_config.max_trees_per_polygon, 300)

\* C4 amended: 100,000 square meters are 10 hectares; the large tier's 15 per
\* hectare give 150 trees, clamped to max_trees_per_polygon.
C4_Returns150Clamped ==
    (TreeCountDone /\ IsFixture /\ area_sq_meters = 100000) =>
        /\ tc_tier = "large"
        /\ tree_count = Min(tree_config.max_trees_per_polygon, 150)

\* The fixture with the default maximum returned 150 for 100,000 square meters.
C4_Witness ==
    /\ TreeCountDone
    /\ tree_config = FixtureTreeConfig(DEFAULT_MAX_TREES_PER_POLYGON)
    /\ area_sq_meters = 100000
    /\ tree_count = 150

(***************************************************************************)
(* Properties of the point sampler                                         *)
(***************************************************************************)

SamplerReturned == sp_pc \in {"done", "appended"}
InRejection == sp_pc \in {"loop", "check"}
NothingContained == \A c \in Cells : ~MembershipTest(polygon, c)

\* C5: the sampler returns at most n points, each of which polygon.contains
\* accepted, and nothing when n <= 0.
C5_AtMostNAllContained ==
    SamplerReturned =>
        /\ Len(sp_result) <= Max(num_points, 0)
        /\ \A i \in 1..Len(sp_result) : Contains(polygon, sp_result[i])
        /\ (num_points <= 0) => (sp_result = <<>>)

\* All n points were found, after at least one candidate was rejected.
C5_Witness ==
    /\ SamplerReturned
    /\ num_points > 0
    /\ Len(sp_result) = num_points
    /\ tested > num_points
    /\ sp_phase = "rejection"

C7_TestsWithinBudget ==
    (num_points > 0 /\ (InRejection \/ SamplerReturned)) =>
        tested <= MaxAttempts(polygon, num_points)

\* C8: the loop is left as soon as consecutive_failures exceeds 50 * n, and a
\* polygon in which no candidate is contained gives an empty list after
\* 50 * n + 1 tests.
C8_EarlyStopAfter50n ==
    /\ (sp_pc = "loop") =>
          (consecutive_failures <= EARLY_STOP_PER_POINT * num_points)
    /\ (num_points > 0 /\ NothingContained) =>
          (tested <= EARLY_STOP_PER_POINT * num_points + 1)
    /\ (SamplerReturned /\ num_points > 0 /\ NothingContained) =>
          /\ sp_result = <<>>
          /\ tested = EARLY_STOP_PER_POINT * num_points + 1

\* C9: a result shorter than the n > 0 points asked for comes with one shortfall
\* warning and as a normal return, and the caller appends exactly the points it
\* was given.
C9_ShortfallWarnedNotRaised ==
    /\ (SamplerReturned /\ num_points > 0 /\ Len(sp_result) < num_points) =>
          (warnings = 1)
    /\ (sp_pc = "appended") => (tree_features = sp_result)

\* A partial, non-empty result reached the caller with its warning.
C9_Witness ==
    /\ sp_pc = "appended"
    /\ Len(sp_result) > 0
    /\ Len(sp_result) < num_points
    /\ tree_features = sp_result
    /\ warnings = 1

(***************************************************************************)
(* Properties of the proportional distribution                             *)
(***************************************************************************)

DistributeDone == ds_pc = "done"
PositiveParts ==
    /\ Len(polygon_areas) >= 1
    /\ \A i \in 1..Len(polygon_areas) : polygon_areas[i] > 0

ClipReturned == cl_pc \in {"done", "redone"}
SourcesOf(rows) == { rows[k].source : k \in 1..Len(rows) }
PositiveOverlap(g) ==
    g.geom_type = "Polygon" /\ g.cells \cap feature_boundary.cells # {}

\* C11: every returned row has a non-empty geometry of positive area, the
\* cells of one input row's geometry that lie in the feature boundary, and
\* an input row with no positive-area overlap (every point and line among
\* them) has no returned row.
C11_ClippedIsPositiveIntersection ==
    ClipReturned =>
        /\ \A k \in 1..Len(clipped) :
              /\ clipped[k].source \in 1..Len(gdf)
              /\ clipped[k].geometry.cells # {}
              /\ Area(clipped[k].geometry) > 0
              /\ clipped[k].geometry.cells =
                    gdf[clipped[k].source].cells \cap feature_boundary.cells
              /\ \A j \in 1..Len(clipped) :
                    clipped[j].source = clipped[k].source => j = k
        /\ \A i \in 1..Len(gdf) :
              ~PositiveOverlap(gdf[i]) => i \notin SourcesOf(clipped)

\* A polygon was cut down to the boundary and a point or line lying inside
\* the boundary was dropped.
C11_Witness ==
    /\ cl_pc = "done"
    /\ Len(gdf) = 2
    /\ Len(clipped) = 1
    /\ clipped[1].geometry.cells # gdf[clipped[1].source].cells
    /\ \E i \in 1..2 :
          /\ gdf[i].geom_type # "Polygon"
          /\ gdf[i].cells \subseteq feature_boundary.cells

\* C12: clipping the returned rows again against the same boundary returns
\* every one of them with the same geometry.
C12_ClipIsIdempotent ==
    cl_pc = "redone" =>
        /\ Len(reclipped) = Len(clipped)
        /\ \A k \in 1..Len(reclipped) :
              /\ reclipped[k].source = k
              /\ reclipped[k].geometry = clipped[k].geometry

\* The second clip ran on a row the first clip had really cut.
C12_Witness ==
    /\ cl_pc = "redone"
    /\ Len(reclipped) >= 1
    /\ \E k \in 1..Len(clipped) :
          clipped[k].geometry.cells # gdf[clipped[k].source].cells

\* C13: with a boundary loaded clip_to_boundary never raises; when the try
\* block raised, the rows returned are the fallback's, and the fallback
\* returns a row for every input row that is not broken and overlaps the
\* boundary with positive area, whatever the other rows are.
C13_FallbackSkipsOnlyFailures ==
    /\ (cl_pc = "raised" => ~feature_boundary.loaded)
    /\ (ClipReturned /\ RepairRaises(gdf) => cl_path = "fallback")
    /\ (ClipReturned /\ cl_path = "fallback" =>
          \A i \in 1..Len(gdf) :
              (gdf[i].flaw # "broken" /\ PositiveOverlap(gdf[i]))
                  <=> i \in SourcesOf(clipped))

\* The fallback skipped a broken row and kept the row next to it.
C13_Witness ==
    /\ cl_pc = "done"
    /\ cl_path = "fallback"
    /\ Len(gdf) = 2
    /\ \E i \in 1..2 : gdf[i].flaw = "broken" /\ PositiveOverlap(gdf[i])
    /\ Len(clipped) = 1

\* C14: on a frame where no repair raises, the rows returned are those the
\* indexed path computes and also those the fallback loop computes: the same
\* input rows, each with the same clipped geometry.
C14_IndexedEqualsFallback ==
    (ClipReturned /\ ~RepairRaises(gdf)) =>
        /\ clipped = clip_indexed(gdf, feature_boundary)
        /\ clipped = clip_to_boundary_fallback(gdf, feature_boundary)

\* The indexed path kept one row and its prefilter discarded the other.
C14_Witness ==
    /\ cl_pc = "done"
    /\ cl_path = "indexed"
    /\ Len(gdf) = 2
    /\ Len(clipped) = 1
    /\ \E i \in 1..2 :
          /\ gdf[i].geom_type = "Polygon"
          /\ ~BoundsIntersect(gdf[i].cells, feature_boundary.cells)

(***************************************************************************)
(* Properties of the pipeline                                              *)
(***************************************************************************)

PipelineMerged == pl_pc = "merged"
OfLayer(features, layer) == SelectSeq(features, LAMBDA f : f.layer = layer)
IdsOf(features) == { features[i].id : i \in 1..Len(features) }

\* C15: in the returned collection the tree points carry the ids 1..N, all
\* different, N being tree_points_total; every OSM tree has a smaller id than
\* every generated tree; tree_id_range is 1..N, or 0..0 without trees; and
\* no tree point has an id before the merge.
C15_TreeIdsSequential ==
    /\ ~PipelineMerged =>
          IdsOf(osm_tree_points \o generated_tree_points) \subseteq {0}
    /\ PipelineMerged =>
          LET trees == OfLayer(output_geojson.features, "tree")
              N == output_geojson.metadata.tree_points_total
          IN  /\ Len(trees) = N
              /\ IdsOf(trees) = 1..N
              /\ \A i, j \in 1..Len(trees) :
                    /\ (trees[i].id = trees[j].id => i = j)
                    /\ (trees[i].source = "osm" /\ trees[j].source = "generated"
                          => trees[i].id < trees[j].id)
              /\ IdsOf(osm_tree_points \o generated_tree_points) = 1..N
              /\ output_geojson.metadata.tree_id_range =
                    IF N = 0 THEN [min |-> 0, max |-> 0]
                    ELSE [min |-> 1, max |-> N]

\* A collection with an OSM tree and a generated tree.
C15_Witness ==
    /\ PipelineMerged
    /\ output_geojson.metadata.tree_points_osm >= 1
    /\ output_geojson.metadata.tree_points_generated >= 1

\* C16: total_features is the sum of the four layer counts and the length
\* of the feature list, each layer count is the number of features of that
\* layer, and tree_points_total is the OSM count plus the generated count.
C16_MetadataCountsAddUp ==
    PipelineMerged =>
        LET md == output_geojson.metadata
            fs == output_geojson.features
        IN  /\ md.total_features = md.boundary_features + md.forest_features
                                   + md.tree_points_total + md.rock_features
            /\ md.tree_points_total = md.tree_points_osm + md.tree_points_generated
            /\ md.total_features = Len(fs)
            /\ md.boundary_features = Len(OfLayer(fs, "boundary"))
            /\ md.forest_features = Len(OfLayer(fs, "forest"))
            /\ md.tree_points_total = Len(OfLayer(fs, "tree"))
            /\ md.rock_features = Len(OfLayer(fs, "rock"))

\* A collection with a boundary, a rock and a tree point.
C16_Witness ==
    /\ PipelineMerged
    /\ output_geojson.metadata.boundary_features >= 1
    /\ output_geojson.metadata.rock_features >= 1
    /\ output_geojson.metadata.tree_points_total >= 1

NoFeatureBoundaryZone ==
    /\ boundaries_file.exists
    /\ \A i \in 1..Len(boundaries_file.zones) :
          NormalizeZoneType(boundaries_file.zones[i]) # FEATURE_BOUNDARY
NoSkiAreaBoundaryZone ==
    /\ boundaries_file.exists
    /\ \A i \in 1..Len(boundaries_file.zones) :
          NormalizeZoneType(boundaries_file.zones[i]) # SKI_AREA_BOUNDARY

\* C17: with no row normalising to feature_boundary the run never fetches,
\* never sets the feature boundary and never returns a collection, and once
\* load_data has run it has ended with the ValueError; that error has no other
\* cause, so a file that only lacks ski_area_boundary does not raise it.
C17_MissingFeatureBoundaryIsFatal ==
    /\ NoFeatureBoundaryZone =>
          /\ fetch_calls = 0
          /\ pl_feature_boundary = "None"
          /\ output_geojson = NoOutput
          /\ pl_pc \in {"start", "seeded", "failed"}
          /\ pl_pc = "failed" => pl_error = "ValueError"
    /\ pl_error = "ValueError" => NoFeatureBoundaryZone
    /\ (PipelineMerged /\ NoSkiAreaBoundaryZone) => ski_warnings = 1

\* The run failed on a boundaries file with rows while the OSM file was
\* missing, empty or unreadable, so that a fetch was due.
C17_Witness ==
    /\ pl_pc = "failed"
    /\ pl_error = "ValueError"
    /\ Len(boundaries_file.zones) >= 1
    /\ ShouldFetch(osm_file)
    /\ NoSkiAreaBoundaryZone

(***************************************************************************)
(* Properties of the Overpass fetch                                        *)
(***************************************************************************)

FetchFeaturesEnded == fetch_outcome # "none"

\* C18: fetch_features posts at most MAX_RETRIES requests; a request that
\* succeeds is the last one and makes it return; requests and sleeps of
\* RETRY_DELAY seconds alternate, starting with a request, and once
\* fetch_features has ended the last event is a request, not a sleep.
C18_BoundedRequestsFixedDelay ==
    /\ Len(responses) <= MAX_RETRIES
    /\ Len(fx_log) <= 2 * MAX_RETRIES - 1
    /\ \A i \in 1..Len(fx_log) :
          /\ fx_log[i].event = (IF i % 2 = 1 THEN "post" ELSE "sleep")
          /\ fx_log[i].event = "sleep" => fx_log[i].seconds = RETRY_DELAY
    /\ \A i \in 1..Len(responses) :
          responses[i] = "ok" =>
              i = Len(responses) /\ fetch_outcome = "returned"
    /\ fetch_outcome = "returned" => responses[Len(responses)] = "ok"
    /\ FetchFeaturesEnded => Len(fx_log) = 2 * Len(responses) - 1

\* Two failed requests, two sleeps, and the third request succeeded.
C18_Witness ==
    /\ fetch_outcome = "returned"
    /\ Len(responses) = MAX_RETRIES
    /\ Len(fx_log) = 2 * MAX_RETRIES - 1

\* C19: when fetch_features raises, all MAX_RETRIES requests have been made.
C19_RaisesOnlyAfterAllAttempts ==
    fetch_outcome = "raised" => Len(responses) = MAX_RETRIES

\* C20: fetch_osm_features ends with the path and the new collection in the
\* file when nothing failed; when the fetch or the save failed it ends with
\* the path and the cached file as it was if there was one, and raises if
\* there was none.
C20_FallbackLeavesCacheUnchanged ==
    fx_pc = "done" =>
        /\ failure = "none" =>
              fetch_osm_result = "path" /\ cache_file = "new"
        /\ (failure # "none" /\ cache_before = "old") =>
              fetch_osm_result = "path" /\ cache_file = "old"
        /\ (failure # "none" /\ cache_before = "absent") =>
              fetch_osm_result = "raised"

(***************************************************************************)
(* Properties of tree placement                                            *)
(***************************************************************************)

PlacementDone == tp_pc = "done"

\* generate_tree_points, lines 773-786, as a function of the clipped frame,
\* the tree_config and the stream it starts from.
RECURSIVE GenerateTreePointsFrom(_, _, _, _)
GenerateTreePointsFrom(frame, i, cfg, state) ==
    IF i > Len(frame) THEN <<>>
    ELSE LET call == process_forest_geometry(frame[i], i, cfg, state)
         IN  call.points \o GenerateTreePointsFrom(frame, i + 1, cfg, call.rng)

\* C21: two runs of create_output_geojson on the same resort (the same
\* boundary, the same OSM features, the same tree_config and random_seed)
\* return the same sequence of generated tree points, whatever state the
\* random stream was in before each run.
C21_SameInputsSamePoints ==
    \A i \in 1..Len(resort_results), j \in 1..Len(resort_results) :
        resorts_to_process[i] = resorts_to_process[j] =>
            resort_results[i].generated = resort_results[j].generated

\* The same resort ran twice, the first run from a stream that had already
\* been read; it has two forest rows and each got points.
C21_Witness ==
    /\ PlacementDone
    /\ Len(resort_results) = 2
    /\ resorts_to_process[1] = resorts_to_process[2]
    /\ Len(resort_results[2].log) = 2
    /\ \A k \in 1..2 : resort_results[2].log[k].points # <<>>
    /\ Len(resort_results[2].generated) > 2

\* C26: the tree points of a resort are those its own inputs and seed give
\* from a freshly seeded stream, whichever resort ran before it in the same
\* process and however many draws that one made.
C26_PointsDependOnOwnInputsOnly ==
    \A i \in 1..Len(resort_results) :
        LET r == resorts_to_process[i]
        IN  resort_results[i].generated =
                GenerateTreePointsFrom(
                    clip_forest_gdf(r.forest_gdf, r.feature_boundary), 1,
                    r.tree_config, [seed |-> r.random_seed, pos |-> 0])

\* A second resort got points after a different first resort had drawn from
\* the stream.
C26_Witness ==
    /\ PlacementDone
    /\ Len(resort_results) = 2
    /\ resorts_to_process[1] # resorts_to_process[2]
    /\ \E k \in 1..Len(resort_results[1].log) : resort_results[1].log[k].draws > 0
    /\ resort_results[2].generated # <<>>

(***************************************************************************)
(* Properties of configuration validation                                  *)
(***************************************************************************)

ThresholdsStrictlyIncreasing(cfg) ==
    /\ cfg.small_area_threshold < cfg.medium_area_threshold
    /\ cfg.medium_area_threshold < cfg.large_area_threshold
    /\ cfg.large_area_threshold < cfg.extra_large_area_threshold

DensitiesPositive(cfg) ==
    /\ cfg.trees_per_small_hectare > 0
    /\ cfg.trees_per_medium_hectare > 0
    /\ cfg.trees_per_large_hectare > 0
    /\ cfg.trees_per_extra_large_hectare > 0

\* C22: a tree configuration whose thresholds are not strictly increasing
\* (small < medium < large < extra-large) or which has a density that is not
\* positive is rejected with a ValidationError.
C22_RejectsUnorderedOrNonPositive ==
    vc_pc = "done" =>
        ( (~ThresholdsStrictlyIncreasing(vc_tree_config)
              \/ ~DensitiesPositive(vc_tree_config))
          => validation_error # "none" )

(***************************************************************************)
(* Properties of batch runs                                                *)
(***************************************************************************)

BatchExited == bp_pc = "exited"

\* The resorts whose pipeline or write raised.
RaisedResorts == { i \in DOMAIN bp_behaviour : bp_behaviour[i] # "ok" }

EntriesOf(resort) == { k \in 1..Len(results) : results[k].resort = resort }

\* C23: when the run of several resorts has exited, every requested resort
\* has exactly one result entry (a failure stops no other resort), and the
\* exit status is 1 exactly when the pipeline or the write of at least one
\* resort failed, and 0 otherwise.
C23_EveryResortOnceAndExitStatus ==
    (BatchExited /\ Len(bp_behaviour) > 1) =>
        /\ Len(results) = Len(bp_behaviour)
        /\ \A resort \in DOMAIN bp_behaviour : Cardinality(EntriesOf(resort)) = 1
        /\ exit_status = (IF RaisedResorts # {} THEN 1 ELSE 0)

\* C28: process_single_resort returns True when create_output_geojson
\* completed and the output file was written, and False only when the
\* pipeline or the write raised.
C28_SuccessIffPipelineAndWriteCompleted ==
    bp_script \in {"batch_sequential", "batch_parallel"} =>
        \A k \in 1..Len(results) :
            results[k].success <=> bp_behaviour[results[k].resort] = "ok"

(***************************************************************************)
(* Properties of the classification of OSM rows                            *)
(***************************************************************************)

Classified == cf_pc = "rocks"

\* C24: a row is selected as forest exactly when landuse = forest or
\* natural = wood; as rock exactly when natural is rock, cliff, scree,
\* bare_rock or stone, or landuse = quarry; as OSM tree exactly when
\* natural = tree and its geometry is a Point; a row with neither tag is in
\* none of the three.
C24_ClassifiedByTags ==
    Classified =>
        \A i \in 1..Len(osm_rows) :
            LET row == osm_rows[i]
            IN  /\ i \in forest_rows <=>
                      (row.landuse = "forest" \/ row.natural = "wood")
                /\ i \in rock_rows <=>
                      (\/ row.natural \in {"rock", "cliff", "scree", "bare_rock", "stone"}
                       \/ row.landuse = "quarry")
                /\ i \in tree_rows <=>
                      (row.natural = "tree" /\ row.geom_type = "Point")
                /\ (row.natural = Absent /\ row.landuse = Absent) =>
                      i \notin forest_rows \cup rock_rows \cup tree_rows

\* A frame with a tree node, and a polygon tagged natural = tree that is not
\* selected; every class has a row, and a row without tags is in none.
C24_Witness ==
    /\ Classified
    /\ Len(osm_rows) = 2
    /\ osm_rows[1].natural = "tree" /\ osm_rows[1].geom_type = "Polygon"
    /\ osm_rows[1].landuse = "quarry"
    /\ osm_rows[2].natural = "tree" /\ osm_rows[2].geom_type = "Point"
    /\ tree_rows = {2}
    /\ rock_rows = {1}
    /\ forest_rows = {}

(***************************************************************************)
(* Properties of the order of the pipeline's stages                        *)
(***************************************************************************)

\* The position of a stage in create_output_geojson, lines 946-963.
StageRank(pc) ==
    CASE pc = "start"      -> 0
      [] pc = "seeded"     -> 1
      [] pc = "loaded"     -> 2
      [] pc = "boundaries" -> 3
      [] pc = "forests"    -> 4
      [] pc = "trees"      -> 5
      [] pc = "rocks"      -> 6
      [] pc = "merged"     -> 7
      [] OTHER             -> 8

\* One step of the pipeline keeps the order of the stages.
StageStep ==
    /\ pl_pc' # pl_pc =>
          \/ StageRank(pl_pc') = StageRank(pl_pc) + 1
          \/ pl_pc = "seeded" /\ pl_pc' = "failed"
    /\ random_seeded' # random_seeded => pl_pc = "start"
    /\ (\/ boundaries_gdf' # boundaries_gdf
        \/ features_gdf' # features_gdf
        \/ pl_feature_boundary' # pl_feature_boundary
        \/ fetch_calls' # fetch_calls) => pl_pc = "seeded" /\ random_seeded
    /\ boundary_features' # boundary_features => pl_pc = "loaded"
    /\ forest_features' # forest_features =>
          pl_pc = "boundaries" /\ pl_feature_boundary = "set"
    /\ generated_tree_points' # generated_tree_points =>
          /\ pl_pc \in {"boundaries", "rocks"}
          /\ pl_feature_boundary = "set"
          /\ random_seeded
    /\ osm_tree_points' # osm_tree_points =>
          pl_pc \in {"forests", "rocks"} /\ pl_feature_boundary = "set"
    /\ rock_features' # rock_features =>
          pl_pc = "trees" /\ pl_feature_boundary = "set"
    /\ pl_pc' \in {"forests", "trees", "rocks"} => pl_feature_boundary = "set"
    /\ output_geojson' # output_geojson => pl_pc = "rocks"

\* C25: create_output_geojson runs its stages in the order seed, load,
\* boundary styling, forest clipping and tree generation, OSM tree filtering,
\* rock clipping, merge; each stage runs at most once and none after a later
\* one has started; nothing is clipped, filtered by containment or generated
\* while the feature boundary is unset.
C25_StagesInOrder == [][StageStep]_vars

\* A run that went through every stage and produced forests, generated
\* trees and rocks.
C25_Witness ==
    /\ pl_pc = "merged"
    /\ random_seeded
    /\ pl_feature_boundary = "set"
    /\ boundary_features # <<>>
    /\ forest_features # <<>>
    /\ generated_tree_points # <<>>
    /\ rock_features # <<>>
    /\ output_geojson.metadata.total_features > 3

(***************************************************************************)
(* Properties of the placed tree points                                    *)
(***************************************************************************)

\* The runs of a resort that can be looked at: the finished ones, and the
\* one in progress once its forest rows are clipped.
PlacedRuns ==
    { [ resort |-> resorts_to_process[i],
        generated |-> resort_results[i].generated,
        osm |-> resort_results[i].osm,
        log |-> resort_results[i].log,
        clipped |-> resort_results[i].clipped ] : i \in 1..Len(resort_results) }
    \cup (IF tp_pc \in {"forests", "nodes"}
          THEN { [ resort |-> Resort, generated |-> tree_points,
                   osm |-> osm_nodes_kept, log |-> forest_log,
                   clipped |-> clipped_forest_gdf ] }
          ELSE {})

\* C27: every tree point of the output lies inside the feature boundary: an
\* OSM tree node is emitted only if the boundary contains it, and every
\* generated point lies inside a part of the forest geometry it is attributed
\* to, clipped to the boundary.
C27_TreePointsInsideBoundary ==
    \A run \in PlacedRuns :
        /\ \A k \in 1..Len(run.osm) :
              run.osm[k].x \in run.resort.feature_boundary
        /\ \A k \in 1..Len(run.generated) :
              LET point == run.generated[k]
                  geometry == run.clipped[point.source_polygon_id]
              IN  /\ point.x \in run.resort.feature_boundary
                  /\ \E p \in 1..Len(geometry.parts) : point.x \in geometry.parts[p]

\* A finished resort whose boundary leaves out a cell that one of its forest
\* rows covers and that holds a tree node; points were generated and a node
\* was dropped.
C27_Witness ==
    /\ PlacementDone
    /\ LET r == resorts_to_process[1]
           res == resort_results[1]
       IN  /\ r.feature_boundary # Cells
           /\ \E i \in 1..Len(r.forest_gdf) :
                 \E p \in 1..Len(r.forest_gdf[i].parts) :
                     ~(r.forest_gdf[i].parts[p] \subseteq r.feature_boundary)
           /\ res.generated # <<>>
           /\ res.osm # <<>>
           /\ Len(res.osm) < Len(r.tree_nodes)

PointsAttributedTo(run, id) ==
    Len(SelectSeq(run.generated, LAMBDA pt : pt.source_polygon_id = id))

\* C29: for every forest feature the number of generated points attributed
\* to it is at most calculate_tree_count of the feature's area, and so at
\* most max_trees_per_polygon, however many parts it has; a feature whose
\* target is 0, or which has no polygon parts, gets no points and consumes no
\* random draws.
C29_PointsWithinTarget ==
    \A run \in PlacedRuns :
        \A k \in 1..Len(run.log) :
            LET entry == run.log[k]
                geometry == run.clipped[entry.polygon_id]
                target == calculate_tree_count(run.resort.tree_config,
                                               GeometryAreaSqMeters(geometry))
            IN  /\ entry.polygon_id = k
                /\ PointsAttributedTo(run, k) = Len(entry.points)
                /\ PointsAttributedTo(run, k) <= target
                /\ PointsAttributedTo(run, k) <=
                      run.resort.tree_config.max_trees_per_polygon
                /\ (target = 0 \/ extract_valid_polygons(geometry) = <<>>) =>
                      /\ PointsAttributedTo(run, k) = 0
                      /\ entry.draws = 0

\* A resort that ran after another one has a two-part feature whose target
\* is the configured maximum; both parts were sampled and the feature got
\* exactly its target.
C29_Witness ==
    /\ PlacementDone
    /\ Len(resort_results) = 2
    /\ \E k \in 1..Len(resort_results[2].log) :
          LET entry == resort_results[2].log[k]
          IN  /\ entry.parts = 2
              /\ entry.target = MaxPoints
              /\ Len(entry.points) = entry.target
              /\ entry.draws > 0

(***************************************************************************)
(* Properties of the distribution over zero-area parts                     *)
(***************************************************************************)

\* C30: a part whose measured area is zero is allocated zero trees, whatever
\* its position in the list (so line 765 never calls the sampler for it).
C30_ZeroAreaPartGetsNoTrees ==
    DistributeDone =>
        \A i \in 1..Len(polygon_areas) :
            polygon_areas[i] = 0 => tree_counts[i] = 0

====
